---- MODULE Spec2Model ----
(***************************************************************************)
(* A model of console/plugin_util/htmlparser.py: the HTMLParser subclass   *)
(* that builds an ElementTree from the events of html.parser.HTMLParser.   *)
(*                                                                         *)
(* A document is fed as chunks of tokens (the events the base class        *)
(* dispatches, in source order).  Strings are sequences of characters, so  *)
(* that joining, stripping and formatting are computed.  Python's None is  *)
(* the empty sequence for optional strings and records and 0 for optional  *)
(* object references; objects (Element, ElementTree) live in the heaps      *)
(* nodes and trees and are referred to by their index.                     *)
(*                                                                         *)
(* A character is a string: an ASCII character stands for itself, and a    *)
(* character of U+0080..U+00FF is named by its two hexadecimal digits.  A  *)
(* byte is named the same way, so a byte buffer is a chunk of tokens whose *)
(* text is a sequence of bytes, and decoding and encoding are computed.    *)
(***************************************************************************)
EXTENDS Integers, Sequences, FiniteSets, TLC

VARIABLES
    self,       \* the HTMLParser instance: its attributes, by their names
    nodes,      \* heap of Element objects (Comment nodes included)
    trees,      \* heap of ElementTree objects (the Documents)
    raised,     \* exception the last call ended with ("" when it returned)
    result,     \* node returned by the last close() (0: none)
    lastCall,   \* the last call made on the instance and its argument
    seen,       \* tokens dispatched to handlers since the last _init()
    closedSeen, \* the value of seen when close() was last called
    nfed,       \* number of tokens passed to feed() so far
    peer        \* a second HTMLParser instance on the same heaps (SpecPair)

vars ==
    <<self, nodes, trees, raised, result, lastCall, seen, closedSeen, nfed,
      peer>>

(***************************************************************************)
(* Bounds of the model.                                                    *)
(***************************************************************************)
MaxFed == 3        \* tokens passed to feed() over the life of an instance
MaxFedDone == 4    \* the same, for the documents of SpecDone
MaxFedFlush == 5   \* the same, for the documents of SpecFlush
MaxChunk == 2      \* tokens in one feed() call
MaxDocs == 1       \* close() calls after which the instance is not used again
MaxDoc == 3        \* tokens in a document passed to fromstring and the like
MaxPass == 2       \* times a document is parsed and serialized again
MaxParses == 2     \* documents parsed one after the other on one instance
MaxCalls == 3      \* calls made on a pair of instances

(***************************************************************************)
(* Python values.                                                          *)
(***************************************************************************)
PyTrue == "<True>"
PyFalse == "<False>"
CommentTag == "<Comment>"
None == <<>>

\* frozenset of void tags, HTMLParser.__init__ (the model's tags among them)
_voids ==
    {"area", "base", "br", "col", "hr", "img", "input", "link", "meta", "param",
     "embed", "keygen", "source", "track", "basefont", "frame", "isindex",
     "rect", "circle", "ellipse", "line", "polyline", "polygon",
     "path", "stop", "use", "image", "animatetransform"}

\* str.strip() on a sequence of characters
Whitespace == {" ", "\n", "\t", "\r", "\f"}

RECURSIVE lstrip(_)
lstrip(d) == IF d # <<>> /\ Head(d) \in Whitespace THEN lstrip(Tail(d)) ELSE d

RECURSIVE rstrip(_)
rstrip(d) ==
    IF d # <<>> /\ d[Len(d)] \in Whitespace
    THEN rstrip(SubSeq(d, 1, Len(d) - 1)) ELSE d

strip(d) == rstrip(lstrip(d))

\* "".join(list of strings)
RECURSIVE join(_)
join(l) == IF l = <<>> THEN <<>> ELSE Head(l) \o join(Tail(l))

\* dict(attrs): keys in order of first occurrence, each with its last value
RECURSIVE dict(_)
dict(attrs) ==
    IF attrs = <<>> THEN <<>>
    ELSE LET init == dict(SubSeq(attrs, 1, Len(attrs) - 1))
             kv   == attrs[Len(attrs)]
         IN IF \E i \in 1..Len(init) : init[i][1] = kv[1]
            THEN [i \in 1..Len(init) |->
                     IF init[i][1] = kv[1] THEN kv ELSE init[i]]
            ELSE Append(init, kv)

(***************************************************************************)
(* bytes.decode and str.encode for the codecs the model's documents name.  *)
(***************************************************************************)
\* the bytes 0x80..0xFF (and the characters U+0080..U+00FF) of the model
High == {"82", "83", "A9", "C2", "C3", "E9"}

\* UTF-8 continuation bytes (0x80..0xBF) among them
Continuation == {"82", "83", "A9"}

Codecs == {"utf-8", "iso-8859-1", "gb2312"}

\* a two-byte UTF-8 sequence: C2 xx is U+00xx, C3 xx is U+00(xx + 40)
utf8_char(lead, cont) ==
    IF lead = "C2" THEN cont
    ELSE CASE cont = "82" -> "C2" [] cont = "83" -> "C3" [] cont = "A9" -> "E9"

RECURSIVE utf8_decode(_)
utf8_decode(b) ==
    IF b = <<>> THEN [ok |-> TRUE, text |-> <<>>]
    ELSE IF Head(b) \notin High
    THEN LET r == utf8_decode(Tail(b))
         IN [ok |-> r.ok, text |-> <<Head(b)>> \o r.text]
    ELSE IF Head(b) \in {"C2", "C3"} /\ Len(b) >= 2 /\ b[2] \in Continuation
    THEN LET r == utf8_decode(SubSeq(b, 3, Len(b)))
         IN [ok |-> r.ok, text |-> <<utf8_char(b[1], b[2])>> \o r.text]
    ELSE [ok |-> FALSE, text |-> <<>>]

\* GB2312: ASCII as it is, a pair of bytes 0xA1..0xFE as one character
\* (named by the pair), anything else is an error
RECURSIVE gb2312_decode(_)
gb2312_decode(b) ==
    IF b = <<>> THEN [ok |-> TRUE, text |-> <<>>]
    ELSE IF Head(b) \notin High
    THEN LET r == gb2312_decode(Tail(b))
         IN [ok |-> r.ok, text |-> <<Head(b)>> \o r.text]
    ELSE IF Len(b) >= 2 /\ {b[1], b[2]} \subseteq High \ {"82", "83"}
    THEN LET r == gb2312_decode(SubSeq(b, 3, Len(b)))
         IN [ok |-> r.ok, text |-> <<b[1] \o b[2]>> \o r.text]
    ELSE [ok |-> FALSE, text |-> <<>>]

\* bytes.decode(encoding) on a run of text; err names the exception
decode_text(b, encoding) ==
    IF encoding \notin Codecs THEN [err |-> "LookupError", text |-> <<>>]
    ELSE LET r == CASE encoding = "utf-8" -> utf8_decode(b)
                    [] encoding = "gb2312" -> gb2312_decode(b)
                    [] encoding = "iso-8859-1" -> [ok |-> TRUE, text |-> b]
         IN IF r.ok THEN [err |-> "", text |-> r.text]
            ELSE [err |-> "UnicodeDecodeError", text |-> <<>>]

\* str.encode("utf-8") of one character
utf8_encode(c) ==
    IF c \notin High THEN <<c>>
    ELSE IF c \in Continuation THEN <<"C2", c>>
    ELSE CASE c = "C2" -> <<"C3", "82">>
           [] c = "C3" -> <<"C3", "83">>
           [] c = "E9" -> <<"C3", "A9">>

(***************************************************************************)
(* Tokens: the events html.parser.HTMLParser dispatches.                   *)
(***************************************************************************)
Tok(kind, tag, attrs, data, wf) ==
    [kind |-> kind, tag |-> tag, attrs |-> attrs, data |-> data, wf |-> wf]

StartTag(tag, attrs) == Tok("start", tag, attrs, <<>>, TRUE)
StartEndTag(tag, attrs) == Tok("startend", tag, attrs, <<>>, TRUE)
EndTag(tag) == Tok("end", tag, <<>>, <<>>, TRUE)
Data(d) == Tok("data", "", <<>>, d, TRUE)
CommentTok(d) == Tok("comment", "", <<>>, d, TRUE)
\* text d followed by an unfinished character reference, such as 'd &amp'
UnfinishedData(d) == Tok("data", "", <<>>, d, FALSE)
Decl(d) == Tok("decl", "", <<>>, d, TRUE)
\* <?target attrs?>; wf: the instruction's text is a well-formed XML element
PI(target, attrs, wf) == Tok("pi", target, attrs, <<"?">>, wf)

IsMeta(tok) == tok.kind \in {"start", "startend"} /\ tok.tag = "meta"

(***************************************************************************)
(* Objects.                                                                *)
(***************************************************************************)
\* Element(tag, attrib) with roottree set.  born is history: the number of
\* tokens dispatched when the element was created (0: by _init).
Element(tag, attrib, tree) ==
    [tag |-> tag, attrib |-> attrib, children |-> <<>>,
     text |-> None, tail |-> None, roottree |-> tree, born |-> 0]

\* ElementTree(None) with the class defaults
ElementTree ==
    [_root |-> 0, doctype |-> None, encoding |-> "", xmlinfo |-> None]

\* `w` is a world: the instance p, the heaps, the exception in flight and
\* the tokens dispatched so far.
\* used is history: the encoding the last feed() decoded its bytes with.
World ==
    [p |-> self, nodes |-> nodes, trees |-> trees, exc |-> "", seen |-> seen,
     used |-> ""]

\* mutant: the temporary root element is one object for every instance
_init_shared_container(w) ==
    LET t == Len(w.trees) + 1
        ia == w.p._init_attrs
        unw == {k \in DOMAIN ia : ia[k] = PyFalse}
    IN [w EXCEPT
          !.trees = Append(@, [ElementTree EXCEPT !.encoding = w.p.encoding]),
          !.nodes = IF @ = <<>> THEN <<Element("html", <<>>, t)>> ELSE @,
          !.seen = <<>>,
          !.p = [@ EXCEPT
                   !._root = 0,
                   !._data = <<>>,
                   !._enabled = (w.p.tag = ""),
                   !._unw_attrs = unw,
                   !._finished = FALSE,
                   !._roottree = t,
                   !._doctype = None,
                   !._xmlinfo = None,
                   !.attrs = [k \in (DOMAIN ia) \ unw |-> ia[k]],
                   !._elem = <<1>>,
                   !._last = 1,
                   !._tail = 0]]

\* HTMLParser._init
_init(w) ==
    LET t == Len(w.trees) + 1
        n == Len(w.nodes) + 1
        ia == w.p._init_attrs
        unw == {k \in DOMAIN ia : ia[k] = PyFalse}
    IN [w EXCEPT
          !.trees = Append(@, [ElementTree EXCEPT !.encoding = w.p.encoding]),
          !.nodes = Append(@, Element("html", <<>>, t)),
          !.seen = <<>>,
          !.p = [@ EXCEPT
                   !._root = 0,
                   !._data = <<>>,
                   !._enabled = (w.p.tag = ""),
                   !._unw_attrs = unw,
                   !._finished = FALSE,
                   !._roottree = t,
                   !._doctype = None,
                   !._xmlinfo = None,
                   !.attrs = [k \in (DOMAIN ia) \ unw |-> ia[k]],
                   !._elem = <<n>>,
                   !._last = n,
                   !._tail = 0]]

\* HTMLParser._flush
_flush(w) ==
    IF w.p._data # <<>>
    THEN LET text == join(w.p._data)
         IN [w EXCEPT
               !.nodes[w.p._last] =
                   IF w.p._tail = 1 THEN [@ EXCEPT !.tail = text]
                                    ELSE [@ EXCEPT !.text = text],
               !.p._data = <<>>]
    ELSE w

(***************************************************************************)
(* HTMLParser._search: does the start tag (tag, attrs) match the filter?   *)
(***************************************************************************)
\* The for loop of _search over the candidate's attributes; `wanted` holds
\* the keys still in wanted_attrs.  ok = FALSE: the loop returned False.
RECURSIVE _search_loop(_, _, _)
_search_loop(p, attrs, wanted) ==
    IF attrs = <<>> THEN [ok |-> TRUE, wanted |-> wanted]
    ELSE LET key == Head(attrs)[1]
             value == Head(attrs)[2]
         IN IF key \in p._unw_attrs
            THEN [ok |-> FALSE, wanted |-> wanted]
            ELSE IF key \in wanted
                    /\ (p.attrs[key] = value \/ p.attrs[key] = PyTrue)
                 THEN _search_loop(p, Tail(attrs), wanted \ {key})
                 ELSE _search_loop(p, Tail(attrs), wanted)

_search(p, tag, attrs) ==
    IF tag = p.tag
    THEN IF DOMAIN p.attrs # {} \/ p._unw_attrs # {}
         THEN IF attrs # <<>>
              THEN LET r == _search_loop(p, attrs, DOMAIN p.attrs)
                   IN r.ok /\ r.wanted = {}
              ELSE FALSE
         ELSE TRUE
    ELSE FALSE

(***************************************************************************)
(* The handlers.  Each takes a world and returns the world it leaves, with *)
(* exc naming the exception it raised, if any.                             *)
(***************************************************************************)
Raise(w, e) == [w EXCEPT !.exc = e]

\* the RuntimeError of _close, told from the others by its message
TargetNotFound == "RuntimeError: Unable to find requested section"

\* mutant: handle_decl without the test for a recorded doctype
handle_decl_overwrites(w, decl) ==
    IF w.p._root # 0 THEN Raise(w, "RuntimeError")
    ELSE LET d == <<"<", "!">> \o decl \o <<">">>
         IN [w EXCEPT !.trees[w.p._roottree].doctype = d, !.p._doctype = d]

\* HTMLParser.handle_decl
handle_decl(w, decl) ==
    IF w.p._root # 0 THEN Raise(w, "RuntimeError")
    ELSE IF w.p._doctype # None THEN Raise(w, "RuntimeError")
    ELSE LET d == <<"<", "!">> \o decl \o <<">">>
         IN [w EXCEPT !.trees[w.p._roottree].doctype = d, !.p._doctype = d]

\* HTMLParser.handle_pi; xml_fromstring raises ParseError on text that is
\* not a well-formed element
handle_pi(w, tok) ==
    IF ~tok.wf THEN Raise(w, "ParseError")
    ELSE IF tok.tag = "xml"
    THEN IF w.p._root # 0 THEN Raise(w, "RuntimeError")
         ELSE IF w.p._xmlinfo # None THEN Raise(w, "RuntimeError")
         ELSE LET pi == <<[attrib |-> tok.attrs, children |-> <<>>,
                           raw |-> <<"<", "?">> \o tok.data \o <<">">>]>>
              IN [w EXCEPT !.trees[w.p._roottree].xmlinfo = pi,
                           !.p._xmlinfo = pi]
    ELSE w

\* every new element appended to the bottom entry of the stack
_handle_starttag_under_bottom(w, tag, attrs, self_closing) ==
    IF w.p._enabled \/ _search(w.p, tag, attrs)
    THEN LET f == _flush(w)
             n == Len(f.nodes) + 1
         IN IF f.p._elem = <<>> THEN Raise(f, "IndexError")
            ELSE LET bottom == f.p._elem[1]
                     a == [f EXCEPT
                             !.nodes = Append(
                                 [@ EXCEPT ![bottom].children = Append(@, n)],
                                 [Element(tag, dict(attrs), f.p._roottree)
                                     EXCEPT !.born = Len(f.seen)]),
                             !.p._last = n]
                     b == IF self_closing
                          THEN [a EXCEPT !.p._tail = 1]
                          ELSE [a EXCEPT !.p._elem = Append(@, n),
                                         !.p._tail = 0]
                IN IF ~b.p._enabled
                   THEN [b EXCEPT !.p._root = n, !.p._enabled = TRUE]
                   ELSE b
    ELSE w

\* HTMLParser._handle_starttag
_handle_starttag(w, tag, attrs, self_closing) ==
    IF w.p._enabled \/ _search(w.p, tag, attrs)
    THEN LET f == _flush(w)
             n == Len(f.nodes) + 1
         IN IF f.p._elem = <<>> THEN Raise(f, "IndexError")
            ELSE LET top == f.p._elem[Len(f.p._elem)]
                     a == [f EXCEPT
                             !.nodes = Append(
                                 [@ EXCEPT ![top].children = Append(@, n)],
                                 [Element(tag, dict(attrs), f.p._roottree)
                                     EXCEPT !.born = Len(f.seen)]),
                             !.p._last = n]
                     b == IF self_closing
                          THEN [a EXCEPT !.p._tail = 1]
                          ELSE [a EXCEPT !.p._elem = Append(@, n),
                                         !.p._tail = 0]
                IN IF ~b.p._enabled
                   THEN [b EXCEPT !.p._root = n, !.p._enabled = TRUE]
                   ELSE b
    ELSE w

\* mutant: handle_starttag that treats no tag as void
handle_starttag_pushes_void(w, tag, attrs) ==
    _handle_starttag(w, tag, attrs, FALSE)

\* HTMLParser.handle_starttag
handle_starttag(w, tag, attrs) ==
    _handle_starttag(w, tag, attrs, tag \in _voids)

\* HTMLParser.handle_startendtag
handle_startendtag(w, tag, attrs) ==
    _handle_starttag(w, tag, attrs, TRUE)

\* self._last = elem = _elem.pop(); if elem is _root: raise EOFError
Pop(w) ==
    LET st == w.p._elem
        elem == st[Len(st)]
        a == [w EXCEPT !.p._elem = SubSeq(st, 1, Len(st) - 1),
                       !.p._last = elem]
    IN IF elem = w.p._root THEN Raise(a, "EOFError") ELSE a

\* HTMLParser.handle_endtag
handle_endtag(w, tag) ==
    IF w.p._enabled /\ tag \notin _voids
    THEN LET st == w.p._elem
         IN IF st = <<>> THEN Raise(w, "IndexError")
            ELSE IF w.nodes[st[Len(st)]].tag = tag
            THEN Pop([_flush(w) EXCEPT !.p._tail = 1])
            ELSE IF Len(st) >= 2 /\ w.nodes[st[Len(st) - 1]].tag = tag
            THEN LET a == Pop([_flush(w) EXCEPT !.p._tail = 1])
                 IN IF a.exc # "" THEN a ELSE Pop(a)
            ELSE w
    ELSE w

\* HTMLParser.handle_data
\* the text appended without the test of _enabled
handle_data_while_searching(w, data) ==
    [w EXCEPT !.p._data = Append(@, data)]

handle_data(w, data) ==
    IF w.p._enabled THEN [w EXCEPT !.p._data = Append(@, data)] ELSE w

\* the comment as it came, appended in SEARCHING state too
handle_comment_untrimmed(w, data) ==
    IF w.p._elem = <<>> THEN Raise(w, "IndexError")
    ELSE LET top == w.p._elem[Len(w.p._elem)]
             n == Len(w.nodes) + 1
         IN [w EXCEPT
               !.nodes = Append(
                   [@ EXCEPT ![top].children = Append(@, n)],
                   [Element(CommentTag, <<>>, 0)
                       EXCEPT !.text = data, !.born = Len(w.seen)])]

\* HTMLParser.handle_comment
handle_comment(w, data) ==
    LET d == strip(data)
    IN IF d # <<>> /\ w.p._enabled
       THEN IF w.p._elem = <<>> THEN Raise(w, "IndexError")
            ELSE LET top == w.p._elem[Len(w.p._elem)]
                     n == Len(w.nodes) + 1
                 IN [w EXCEPT
                       !.nodes = Append(
                           [@ EXCEPT ![top].children = Append(@, n)],
                           [Element(CommentTag, <<>>, 0)
                               EXCEPT !.text = d, !.born = Len(w.seen)])]
       ELSE w

\* html.parser.HTMLParser.goahead: one token to its handler
Dispatch(w, tok) ==
    LET v == [w EXCEPT !.seen = Append(@, tok)]
    IN CASE tok.kind = "start" -> handle_starttag(v, tok.tag, tok.attrs)
         [] tok.kind = "startend" -> handle_startendtag(v, tok.tag, tok.attrs)
         [] tok.kind = "end" -> handle_endtag(v, tok.tag)
         [] tok.kind = "data" -> handle_data(v, tok.data)
         [] tok.kind = "comment" -> handle_comment(v, tok.data)
         [] tok.kind = "decl" -> handle_decl(v, tok.data)
         [] tok.kind = "pi" -> handle_pi(v, tok)

\* html.parser.HTMLParser.goahead: the tokens of rawdata in order, until a
\* handler raises
RECURSIVE goahead(_, _)
goahead(w, toks) ==
    IF toks = <<>> \/ w.exc # "" THEN w
    ELSE CHOOSE r \in {goahead(v, Tail(toks)) : v \in {Dispatch(w, Head(toks))}} :
             TRUE

\* the run of text at the end of rawdata
RECURSIVE text_run_at_end(_)
text_run_at_end(raw) ==
    IF raw = <<>> \/ raw[Len(raw)].kind # "data" THEN <<>>
    ELSE Append(text_run_at_end(SubSeq(raw, 1, Len(raw) - 1)), raw[Len(raw)])

\* html.parser.HTMLParser.goahead(end=False): text at the end of rawdata
\* that ends in an unfinished character reference (an & with no space or
\* semicolon after it) is left in rawdata until more input arrives
held_text(raw) ==
    IF raw # <<>> /\ raw[Len(raw)].kind = "data" /\ ~raw[Len(raw)].wf
    THEN text_run_at_end(raw)
    ELSE <<>>

\* HTMLParser.feed past its first test: super().feed(data) in the try.  An
\* exception leaves rawdata as it was at the call (the base class trims it
\* only when goahead returns); EOFError is caught: _finished is set and
\* reset() empties rawdata.
super_feed(w, data) ==
    LET raw == w.p.rawdata \o data
        held == held_text(raw)
        parsed == SubSeq(raw, 1, Len(raw) - Len(held))
    IN CHOOSE r \in
           {IF g.exc = "EOFError"
            THEN [g EXCEPT !.exc = "", !.p._finished = TRUE, !.p.rawdata = <<>>]
            ELSE IF g.exc # ""
            THEN [g EXCEPT !.p.rawdata = raw]
            ELSE [g EXCEPT !.p.rawdata = held] : g \in {goahead(w, parsed)}} : TRUE

\* mutant: feed() without the test of _finished
feed_when_finished(w, data) == super_feed(w, data)

\* HTMLParser.feed (text input)
feed(w, data) ==
    IF w.p._finished THEN w ELSE super_feed(w, data)

\* contiguous text of a byte buffer is one run: adjacent text tokens merged
RECURSIVE merge_data(_)
merge_data(toks) ==
    IF Len(toks) < 2 THEN toks
    ELSE IF toks[1].kind = "data" /\ toks[2].kind = "data"
    THEN merge_data(<<Data(toks[1].data \o toks[2].data)>>
                        \o SubSeq(toks, 3, Len(toks)))
    ELSE <<Head(toks)>> \o merge_data(Tail(toks))

\* data.decode(encoding) on a buffer of tokens: markup is ASCII, each run
\* of text is decoded; err names the exception of the first run that fails
RECURSIVE decode_runs(_, _)
decode_runs(toks, encoding) ==
    IF toks = <<>> THEN [err |-> "", toks |-> <<>>]
    ELSE LET t == Head(toks)
             d == IF t.kind = "data" THEN decode_text(t.data, encoding)
                  ELSE [err |-> "", text |-> t.data]
             r == decode_runs(Tail(toks), encoding)
         IN IF d.err # "" THEN [err |-> d.err, toks |-> <<>>]
            ELSE [err |-> r.err, toks |-> <<[t EXCEPT !.data = d.text]>> \o r.toks]

\* data.decode(encoding) in feed() and _make_unicode: the world after it
\* (exc set when it raised) and the text
decode(w, data, encoding) ==
    LET r == IF encoding \in Codecs THEN decode_runs(merge_data(data), encoding)
             ELSE [err |-> "LookupError", toks |-> <<>>]
    IN [w |-> [w EXCEPT !.exc = r.err, !.used = encoding], text |-> r.toks]

\* data.find(b"</head>"): the offset of the first </head>, counted in
\* tokens (0: the buffer starts with it), -1 when there is none
find_end_head(data) ==
    LET hits == {i \in 1..Len(data) :
                    data[i].kind = "end" /\ data[i].tag = "head"}
    IN IF hits = {} THEN -1
       ELSE (CHOOSE i \in hits : \forall j \in hits : i <= j) - 1

\* data[:end_head_tag] as far as _cre can match in it: the tokens before
\* that offset; with -1 the last byte of the buffer is cut off, which
\* leaves the last token without its final byte
window(data, end_head_tag) ==
    IF end_head_tag >= 0 THEN SubSeq(data, 1, end_head_tag)
    ELSE SubSeq(data, 1, Len(data) - 1)

charset_of(tok) ==
    LET hits == {i \in 1..Len(tok.attrs) : tok.attrs[i][1] = "charset"}
    IN IF hits = {} THEN ""
       ELSE tok.attrs[CHOOSE i \in hits : \A j \in hits : i <= j][2]

\* _cre.search(...): the charset of the first complete <meta ... charset="...">
\* of the window, "" for no match
_cre_search(toks) ==
    LET hits == {i \in 1..Len(toks) :
                    /\ IsMeta(toks[i])
                    /\ charset_of(toks[i]) # ""}
    IN IF hits = {} THEN ""
       ELSE charset_of(toks[CHOOSE i \in hits : \A j \in hits : i <= j])

\* bool(self._xmlinfo): an Element is true when it has children
ElementTruth(e) == e # None /\ e[1].children # <<>>

attrib_get(attrib, key) ==
    LET hits == {i \in 1..Len(attrib) : attrib[i][1] = key}
    IN IF hits = {} THEN ""
       ELSE attrib[CHOOSE i \in hits : \A j \in hits : j <= i][2]

\* mutant: the fallback decodes with bytes.decode()'s default, UTF-8
_make_unicode_default_codec(w, data) ==
    LET end_head_tag == find_end_head(data)
        charset == IF end_head_tag # 0
                   THEN _cre_search(window(data, end_head_tag))
                   ELSE ""
    IN IF charset # ""
       THEN decode([w EXCEPT !.trees[w.p._roottree].encoding = charset,
                             !.p.encoding = charset], data, charset)
       ELSE decode([w EXCEPT !.p.encoding = "iso-8859-1"], data, "utf-8")

\* HTMLParser._make_unicode; charset.group(1).decode() raises on a name
\* that is not UTF-8, before anything is assigned
_make_unicode(w, data) ==
    IF ElementTruth(w.p._xmlinfo)
       /\ attrib_get(w.p._xmlinfo[1].attrib, "encoding") # ""
    THEN LET e == attrib_get(w.p._xmlinfo[1].attrib, "encoding")
         IN decode([w EXCEPT !.trees[w.p._roottree].encoding = e,
                             !.p.encoding = e], data, e)
    ELSE LET end_head_tag == find_end_head(data)
             charset == IF end_head_tag # 0
                        THEN _cre_search(window(data, end_head_tag))
                        ELSE ""
         IN IF charset \in High
            THEN [w |-> Raise(w, "UnicodeDecodeError"), text |-> <<>>]
            ELSE IF charset # ""
            THEN decode([w EXCEPT !.trees[w.p._roottree].encoding = charset,
                                  !.p.encoding = charset], data, charset)
            ELSE decode([w EXCEPT !.p.encoding = "iso-8859-1"],
                        data, "iso-8859-1")

\* feed() that resolves the encoding of every chunk anew
feed_bytes_rescans(w, data) ==
    IF w.p._finished THEN w
    ELSE CHOOSE r \in
             {IF d.w.exc # "" THEN d.w ELSE super_feed(d.w, d.text) :
                 d \in {IF w.p.given_encoding # ""
                        THEN decode(w, data, w.p.encoding)
                        ELSE _make_unicode(w, data)}} : TRUE

\* HTMLParser.feed (bytes input)
feed_bytes(w, data) ==
    IF w.p._finished THEN w
    ELSE CHOOSE r \in
             {IF d.w.exc # "" THEN d.w ELSE super_feed(d.w, d.text) :
                 d \in {IF w.p.encoding # "" THEN decode(w, data, w.p.encoding)
                        ELSE _make_unicode(w, data)}} : TRUE

\* tmp_root.find("html"): the first child with that tag, 0 for None
find(w, n, tag) ==
    LET ch == w.nodes[n].children
        hits == {i \in 1..Len(ch) : w.nodes[ch[i]].tag = tag}
    IN IF hits = {} THEN 0
       ELSE ch[CHOOSE i \in hits : \A j \in hits : i <= j]

\* HTMLParser._close: the world it leaves and the node it returns
_close(w) ==
    LET f == _flush(w)
        t == f.p._roottree
    IN IF ~f.p._enabled
       THEN [w |-> Raise(f, TargetNotFound), ret |-> 0]
       ELSE IF f.p._root # 0
       THEN [w |-> [f EXCEPT !.trees[t]._root = f.p._root], ret |-> f.p._root]
       ELSE IF f.p._elem = <<>>
       THEN [w |-> Raise(f, "IndexError"), ret |-> 0]
       ELSE LET tmp_root == f.p._elem[1]
                proper_root == find(f, tmp_root, "html")
            IN IF proper_root = 0
               THEN [w |-> [f EXCEPT !.trees[t]._root = tmp_root],
                     ret |-> tmp_root]
               ELSE [w |-> [f EXCEPT !.trees[t]._root = proper_root],
                     ret |-> proper_root]

\* HTMLParser.close: _close(), then _init() whatever happened
close(w) ==
    CHOOSE r \in {[w |-> [_init(c.w) EXCEPT !.exc = c.w.exc], ret |-> c.ret] :
                     c \in {_close(w)}} : TRUE

\* feed(), by the type of its argument: text is a record with the flag
\* bytes and the tokens toks
feed_any(w, text) ==
    IF text.bytes THEN feed_bytes(w, text.toks) ELSE feed(w, text.toks)

\* fromstring(text, parser), on the world of the parser: an exception of
\* feed() leaves the function before close()
fromstring(w, text) ==
    CHOOSE r \in {IF f.exc # "" THEN [w |-> f, ret |-> 0] ELSE close(f) :
                     f \in {feed_any(w, text)}} : TRUE

\* fromstringlist(sequence, parser); the chunks of a sequence are all bytes
\* or all text
RECURSIVE fromstringlist(_, _, _)
fromstringlist(w, sequence, bytes) ==
    IF sequence = <<>> THEN close(w)
    ELSE CHOOSE r \in
             {IF f.exc # "" THEN [w |-> f, ret |-> 0]
              ELSE fromstringlist(f, Tail(sequence), bytes) :
                 f \in {feed_any(w, [bytes |-> bytes, toks |-> Head(sequence)])}} :
             TRUE

\* str.lower() on the tag of an element and on the name of an encoding
lower(tag) ==
    CASE tag = "HTML" -> "html" [] tag = "Unicode" -> "unicode"
      [] tag = "UTF-8" -> "utf-8" [] OTHER -> tag

\* make_element(tag, tail='\n'): a plain Element, outside any Document;
\* born -1 is history: made by make_element
make_element(tag, tail) ==
    [Element(tag, <<>>, 0) EXCEPT !.tail = tail, !.born = -1]

\* the document that html_fromstring parses for blank input
Skeleton ==
    [bytes |-> TRUE,
     toks |-> <<StartTag("html", <<>>),
                Data(<<"\n", " ", " ", " ", " ">>),
                StartTag("head", <<>>),
                Data(<<"\n", " ", " ", " ", " ", " ", " ", " ", " ">>),
                StartEndTag("meta", <<<<"charset", "utf-8">>>>),
                Data(<<"\n", " ", " ", " ", " ">>),
                EndTag("head"),
                Data(<<"\n", " ", " ", " ", " ">>),
                StartEndTag("body", <<>>),
                Data(<<"\n">>),
                EndTag("html")>>]

\* not text.strip()
IsBlank(text) ==
    \A i \in 1..Len(text.toks) :
        text.toks[i].kind = "data" /\ strip(text.toks[i].data) = <<>>

\* mutant: html_fromstring that adds head and body without looking
ensure_head_body_always(w, element) ==
    LET n == Len(w.nodes) + 1
    IN [w EXCEPT !.nodes =
           [@ EXCEPT ![element].children = <<n>> \o @ \o <<n + 1>>]
               \o <<make_element("head", <<"\n">>),
                    make_element("body", <<"\n">>)>>]

\* html_fromstring: the two tests under `if full and ...`
ensure_head_body(w, element) ==
    LET a == IF find(w, element, "head") = 0
             THEN LET n == Len(w.nodes) + 1
                  IN [w EXCEPT !.nodes =
                         Append([@ EXCEPT ![element].children = <<n>> \o @],
                                make_element("head", <<"\n">>))]
             ELSE w
    IN IF find(a, element, "body") = 0
       THEN LET n == Len(a.nodes) + 1
            IN [a EXCEPT !.nodes =
                   Append([@ EXCEPT ![element].children = Append(@, n)],
                          make_element("body", <<"\n">>))]
       ELSE a

\* html_fromstring(text, parser, full), on the world of the parser
html_fromstring(w, text, full) ==
    CHOOSE e \in
        {IF r.w.exc # "" THEN r
         ELSE IF full /\ lower(r.w.nodes[r.ret].tag) = "html"
         THEN [w |-> ensure_head_body(r.w, r.ret), ret |-> r.ret]
         ELSE r :
            r \in {fromstring(w, IF IsBlank(text) THEN Skeleton ELSE text)}} : TRUE

(***************************************************************************)
(* tostring(element, encoding, method, full, xml_declaration) and the      *)
(* xml.etree.ElementTree.tostring it calls.  The output is the sequence of *)
(* its tokens; None for encoding is "", None for xml_declaration is        *)
(* PyNone.                                                                 *)
(***************************************************************************)
PyNone == "<None>"

\* xml.etree.ElementTree.HTML_EMPTY: the tags written without an end tag
HTML_EMPTY ==
    {"area", "base", "basefont", "br", "col", "embed", "frame", "hr", "img",
     "input", "isindex", "link", "meta", "param", "source", "track", "wbr"}

\* the name of a codec as the codec registry looks it up
codec(encoding) == IF encoding = "UTF-8" THEN "utf-8" ELSE encoding

\* errors="xmlcharrefreplace": &#N; with N the code point in decimal
charref(c) ==
    <<"&", "#">>
    \o (CASE c = "82" -> <<"1", "3", "0">> [] c = "83" -> <<"1", "3", "1">>
          [] c = "A9" -> <<"1", "6", "9">> [] c = "C2" -> <<"1", "9", "4">>
          [] c = "C3" -> <<"1", "9", "5">> [] c = "E9" -> <<"2", "3", "3">>)
    \o <<";">>

\* str.encode(encoding) of the serializer's writer, for the codecs utf-8,
\* iso-8859-1 and us-ascii; "unicode" writes the text as it is
RECURSIVE encode_text(_, _)
encode_text(text, encoding) ==
    IF text = <<>> THEN <<>>
    ELSE (IF Head(text) \notin High \/ encoding = "unicode" THEN <<Head(text)>>
          ELSE IF codec(encoding) = "utf-8" THEN utf8_encode(Head(text))
          ELSE IF encoding = "us-ascii" THEN charref(Head(text))
          ELSE <<Head(text)>>)
         \o encode_text(Tail(text), encoding)

\* _serialize_html of xml.etree.ElementTree: the tokens of the output
RECURSIVE _serialize_html(_, _, _)
RECURSIVE _serialize_children(_, _, _)
_serialize_children(ns, ch, encoding) ==
    IF ch = <<>> THEN <<>>
    ELSE _serialize_html(ns, Head(ch), encoding)
         \o _serialize_children(ns, Tail(ch), encoding)

_serialize_html(ns, n, encoding) ==
    LET e == ns[n]
        text == IF e.text # None THEN <<Data(encode_text(e.text, encoding))>>
                ELSE <<>>
        tail == IF e.tail # None THEN <<Data(encode_text(e.tail, encoding))>>
                ELSE <<>>
    IN IF e.tag = CommentTag
       THEN <<CommentTok(encode_text(e.text, encoding))>> \o tail
       ELSE <<StartTag(e.tag, e.attrib)>> \o text
            \o _serialize_children(ns, e.children, encoding)
            \o (IF lower(e.tag) \in HTML_EMPTY THEN <<>> ELSE <<EndTag(e.tag)>>)
            \o tail

\* _serialize_xml of xml.etree.ElementTree with short_empty_elements: an
\* element without text and children is written <tag />
RECURSIVE _serialize_xml(_, _, _)
RECURSIVE _serialize_xml_children(_, _, _)
_serialize_xml_children(ns, ch, encoding) ==
    IF ch = <<>> THEN <<>>
    ELSE _serialize_xml(ns, Head(ch), encoding)
         \o _serialize_xml_children(ns, Tail(ch), encoding)

_serialize_xml(ns, n, encoding) ==
    LET e == ns[n]
        text == IF e.text # None THEN <<Data(encode_text(e.text, encoding))>>
                ELSE <<>>
        tail == IF e.tail # None THEN <<Data(encode_text(e.tail, encoding))>>
                ELSE <<>>
    IN IF e.tag = CommentTag
       THEN <<CommentTok(encode_text(e.text, encoding))>> \o tail
       ELSE IF e.text # None \/ e.children # <<>>
       THEN <<StartTag(e.tag, e.attrib)>> \o text
            \o _serialize_xml_children(ns, e.children, encoding)
            \o <<EndTag(e.tag)>> \o tail
       ELSE <<StartEndTag(e.tag, e.attrib)>> \o tail

\* xml.etree.ElementTree.tostring(element, encoding, method,
\* xml_declaration=xml_declaration), method "xml" or "html": ElementTree.write
\* into a StringIO for encoding 'unicode' and into a BytesIO otherwise; the
\* writer is a text writer for any spelling of 'unicode'
xml_tostring(ns, n, encoding, method, xml_declaration) ==
    LET enc == IF encoding = "" THEN "us-ascii" ELSE encoding
        declared_encoding == IF lower(enc) = "unicode" THEN "utf-8" ELSE enc
        declaration ==
            IF method = "xml"
               /\ (xml_declaration = PyTrue
                   \/ (xml_declaration = PyNone
                       /\ lower(enc) # "unicode"
                       /\ lower(declared_encoding) \notin {"utf-8", "us-ascii"}))
            THEN <<PI("xml", <<<<"version", "1.0">>,
                               <<"encoding", declared_encoding>>>>, TRUE),
                   Data(<<"\n">>)>>
            ELSE <<>>
    IN IF lower(enc) = "unicode" /\ enc # "unicode"
       THEN [exc |-> "TypeError", toks |-> <<>>]
       ELSE [exc |-> "",
             toks |-> declaration
                      \o (IF method = "html"
                          THEN _serialize_html(ns, n, lower(enc))
                          ELSE _serialize_xml(ns, n, lower(enc)))]

\* _ensure_bytes(o) for a str: o.encode('utf-8'), which leaves an ASCII
\* string as it is
_ensure_bytes(o) ==
    IF \A i \in 1..Len(o) : o[i] \notin High THEN o
    ELSE encode_text(o, "utf-8")

\* '<!DOCTYPE html>', the doctype of method html when the Document has none
DefaultDoctype ==
    <<"<", "!", "D", "O", "C", "T", "Y", "P", "E", " ", "h", "t", "m", "l", ">">>

\* the doctype of method xhtml when the Document has none
XhtmlDoctype ==
    <<"<", "!", "D", "O", "C", "T", "Y", "P", "E", " ", "h", "t", "m", "l",
      " ", "P", "U", "B", "L", "I", "C", " ", "\"", "-", "/", "/", "W",
      "3", "C", "/", "/", "D", "T", "D", " ", "X", "H", "T", "M", "L", " ",
      "1", ".", "1", "/", "/", "E", "N", "\"", " ", "\"", "h", "t", "t",
      "p", ":", "/", "/", "w", "w", "w", ".", "w", "3", ".", "o", "r", "g",
      "/", "T", "R", "/", "x", "h", "t", "m", "l", "1", "1", "/", "D", "T",
      "D", "/", "x", "h", "t", "m", "l", "1", "1", ".", "d", "t", "d",
      "\"", ">">>

\* the declaration token of a doctype string '<!...>'
decl_of(doctype) == Decl(SubSeq(doctype, 3, Len(doctype) - 1))

\* isinstance(element, Element): an element the parser made has a roottree;
\* the nodes Comment() and make_element() make are plain elements
IsElement(e) == e.roottree # 0

\* the Document's encoding before the argument
output_encoding_document_first(encoding, roottree) ==
    IF roottree.encoding # "" THEN roottree.encoding
    ELSE IF encoding # "" THEN encoding
    ELSE "UTF-8"

\* encoding or roottree.encoding or 'UTF-8'
output_encoding(encoding, roottree) ==
    IF encoding # "" THEN encoding
    ELSE IF roottree.encoding # "" THEN roottree.encoding
    ELSE "UTF-8"

has_key(attrib, key) == \E i \in 1..Len(attrib) : attrib[i][1] = key

\* version 1.0 and the output encoding, whatever was captured
xmlattrib_of_output(xmlinfo, encoding, to_unicode) ==
    <<<<"version", "1.0">>,
      <<"encoding", IF to_unicode THEN "UTF-8" ELSE encoding>>>>

\* xmlattrib: the attributes of the captured <?xml?> instruction, with
\* version and encoding added when they are not among them
xmlattrib_of(xmlinfo, encoding, to_unicode) ==
    LET a == IF xmlinfo = None THEN <<>> ELSE xmlinfo[1].attrib
        b == IF has_key(a, "version") THEN a
             ELSE Append(a, <<"version", "1.0">>)
    IN IF has_key(b, "encoding") THEN b
       ELSE Append(b, <<"encoding", IF to_unicode THEN "UTF-8" ELSE encoding>>)

\* no default doctype in the bytes path
doctype_of_text_only(doctype, method, to_unicode) ==
    IF doctype # None THEN doctype
    ELSE IF to_unicode /\ method = "html" THEN DefaultDoctype
    ELSE IF to_unicode /\ method = "xhtml" THEN XhtmlDoctype
    ELSE None

\* the doctype of the output, None for none: `if not doctype: ...`, in the
\* text path and in the bytes path
doctype_of(doctype, method, to_unicode) ==
    IF to_unicode
    THEN IF doctype # None THEN doctype
         ELSE IF method = "html" THEN DefaultDoctype
         ELSE IF method = "xhtml" THEN XhtmlDoctype
         ELSE None
    ELSE IF doctype # None THEN doctype
         ELSE IF method = "html" THEN DefaultDoctype
         ELSE IF method = "xhtml" THEN XhtmlDoctype
         ELSE None

\* a declaration unless xml_declaration is False, for every method
emits_declaration_unless_false(xml_declaration, method) ==
    xml_declaration # PyFalse

\* xml_declaration or (xml_declaration is None and method == 'xml'), with
\* method after xhtml has become xml
emits_declaration(xml_declaration, method) ==
    xml_declaration = PyTrue \/ (xml_declaration = PyNone /\ method = "xml")

\* the doctype before the declaration
parts_of_doctype_first(declaration, doctype, tree) ==
    doctype \o declaration \o <<tree>>

\* the parts in the order they are appended
parts_of(declaration, doctype, tree) == declaration \o doctype \o <<tree>>

\* '\n'.join(parts), each part a sequence of tokens
RECURSIVE newline_join(_)
newline_join(parts) ==
    IF parts = <<>> THEN <<>>
    ELSE IF Len(parts) = 1 THEN parts[1]
    ELSE parts[1] \o <<Data(<<"\n">>)>> \o newline_join(Tail(parts))

\* tostring: what it raised, whether it returned bytes, and the tokens of
\* what it returned
tostring(w, element, encoding, method, full, xml_declaration) ==
    IF ~full \/ method \notin {"xml", "html", "xhtml"}
    THEN LET r == xml_tostring(w.nodes, element, encoding,
                               IF method = "xhtml" THEN "xml" ELSE method,
                               xml_declaration)
         IN [exc |-> r.exc, bytes |-> encoding # "unicode",
             toks |-> merge_data(r.toks)]
    ELSE IF ~IsElement(w.nodes[element])
    THEN [exc |-> "AttributeError", bytes |-> FALSE, toks |-> <<>>]
    ELSE LET roottree == w.trees[w.nodes[element].roottree]
             root == roottree._root
             enc == output_encoding(encoding, roottree)
             to_unicode == lower(enc) = "unicode"
             xmlattrib == xmlattrib_of(roottree.xmlinfo, enc, to_unicode)
             doctype == doctype_of(roottree.doctype, method, to_unicode)
             xml_method == IF method = "xhtml" THEN "xml" ELSE method
             declaration ==
                 IF emits_declaration(xml_declaration, xml_method)
                 THEN <<<<PI("xml", xmlattrib, TRUE)>>>>
                 ELSE <<>>
             doctype_part ==
                 IF doctype = None THEN <<>>
                 ELSE IF to_unicode THEN <<<<decl_of(doctype)>>>>
                 ELSE <<<<decl_of(_ensure_bytes(doctype))>>>>
             tree == xml_tostring(w.nodes, root,
                                  IF to_unicode THEN "unicode" ELSE enc,
                                  xml_method, PyFalse)
         IN IF root = 0
            THEN [exc |-> "AttributeError", bytes |-> FALSE, toks |-> <<>>]
            ELSE [exc |-> tree.exc, bytes |-> ~to_unicode,
                  toks |-> merge_data(newline_join(
                      parts_of(declaration, doctype_part, tree.toks)))]

(***************************************************************************)
(* The instance after HTMLParser(tag, attrs, encoding): __init__ then      *)
(* _init.  given_encoding is history: the encoding argument.               *)
(***************************************************************************)
HTMLParser(tag, attrs, encoding) ==
    _init([p |-> [tag |-> tag, attrs |-> <<>>, encoding |-> encoding,
                  given_encoding |-> encoding,
                  _init_attrs |-> attrs, rawdata |-> <<>>,
                  _root |-> 0, _data |-> <<>>, _enabled |-> FALSE,
                  _unw_attrs |-> {}, _finished |-> FALSE, _roottree |-> 0,
                  _doctype |-> None, _xmlinfo |-> None, _elem |-> <<>>,
                  _last |-> 0, _tail |-> 0],
           nodes |-> <<>>, trees |-> <<>>, exc |-> "", seen |-> <<>>,
           used |-> ""])

(***************************************************************************)
(* Inputs.                                                                 *)
(***************************************************************************)
NoAttrs == [k \in {} |-> ""]

\* constructor arguments (tag, attrs)
NoFilter == {[tag |-> "", attrs |-> NoAttrs]}

DivFilter == {[tag |-> "div", attrs |-> NoAttrs]}

\* a filter on a void element
BrFilter == {[tag |-> "br", attrs |-> NoAttrs]}

IdMainFilter == {[tag |-> "div", attrs |-> [k \in {"id"} |-> "main"]]}

Filters ==
    DivFilter \cup IdMainFilter \cup
    {[tag |-> "div", attrs |-> [k \in {"id"} |-> PyTrue]],
     [tag |-> "div", attrs |-> [k \in {"id"} |-> PyFalse]],
     [tag |-> "div", attrs |-> [k \in {"id", "class"} |->
                                   IF k = "id" THEN "main" ELSE PyFalse]],
     [tag |-> "div", attrs |-> [k \in {"id", "class"} |->
                                   IF k = "id" THEN PyTrue ELSE "x"]]}

\* documents of nested, void, self-closing and stray tags around text
Tokens ==
    {StartTag("div", <<>>), StartTag("p", <<>>), StartTag("br", <<>>),
     StartEndTag("br", <<>>),
     EndTag("div"), EndTag("p"), EndTag("html"), EndTag("br"),
     Data(<<"a">>), Data(<<"b">>)}

\* documents with declarations and processing instructions
DeclTokens ==
    {Decl(<<"d", "1">>), Decl(<<"d", "2">>),
     PI("xml", <<<<"version", "1.0">>>>, TRUE),
     PI("xml", <<<<"encoding", "gb2312">>>>, TRUE),
     PI("php", <<>>, TRUE), PI("php", <<>>, FALSE),
     StartTag("div", <<>>), EndTag("div"), Data(<<"a">>)}

\* documents around candidates of the target filter
TargetTokens ==
    {StartTag("div", <<>>), StartTag("div", <<<<"id", "main">>>>),
     StartEndTag("div", <<>>),
     StartTag("p", <<>>), EndTag("div"), EndTag("p"),
     Data(<<"a">>), CommentTok(<<" ", "c", " ">>)}

\* candidates of the target filter
SearchTokens ==
    {StartTag("div", <<>>), StartTag("div", <<<<"id", "main">>>>),
     StartTag("div", <<<<"id", "x">>>>),
     StartTag("div", <<<<"id", "x">>, <<"id", "main">>>>),
     StartTag("div", <<<<"class", "x">>>>),
     StartTag("div", <<<<"id", "main">>, <<"class", "x">>>>),
     StartTag("div", <<<<"class", "y">>, <<"id", "main">>>>),
     StartTag("p", <<<<"id", "main">>>>)}

\* documents that go on after the matched root has closed
DoneTokens ==
    {Decl(<<"d", "1">>), Decl(<<"d", "2">>),
     PI("xml", <<<<"version", "1.0">>>>, TRUE),
     PI("xml", <<<<"encoding", "gb2312">>>>, TRUE),
     StartTag("div", <<>>), EndTag("div"), Data(<<"a">>)}

\* elements left open, closed by the end tag of their parent, of the
\* matched root and of the container
EndTokens ==
    {StartTag("div", <<>>), StartTag("p", <<>>),
     EndTag("div"), EndTag("p"), EndTag("html"), Data(<<"a">>)}

\* comments with text and of whitespace only, among open elements
CommentTokens ==
    {StartTag("div", <<>>), StartTag("p", <<>>), EndTag("p"),
     CommentTok(<<" ", "c", " ">>), CommentTok(<<" ">>), Data(<<"a">>)}

\* text and comments before, in and after an html element and a target,
\* and text that ends in an unfinished character reference
KeepTokens ==
    {StartTag("html", <<>>), StartTag("p", <<>>), StartTag("div", <<>>),
     StartEndTag("div", <<>>), EndTag("p"), EndTag("html"),
     Data(<<"a">>), Data(<<"b">>), UnfinishedData(<<"a">>),
     CommentTok(<<"c">>)}

\* text, elements and the end tag that names the synthetic container
FlushTokens ==
    {EndTag("html"), StartTag("p", <<>>), EndTag("p"),
     Data(<<"a">>), Data(<<"b">>)}

\* every kind of token, with start tags the filter accepts and rejects
SeekTokens ==
    {Decl(<<"d", "1">>), PI("xml", <<<<"version", "1.0">>>>, TRUE),
     PI("php", <<>>, TRUE), Data(<<"a">>), UnfinishedData(<<"a">>),
     CommentTok(<<"c">>), EndTag("div"), StartTag("p", <<>>),
     StartTag("div", <<>>), StartTag("div", <<<<"id", "x">>>>),
     StartTag("div", <<<<"id", "main">>>>)}

\* elements in and after the target of a filter, the void br among them
LiveTokens ==
    {StartTag("div", <<>>), EndTag("div"), StartTag("br", <<>>), EndTag("br"),
     StartTag("p", <<>>), EndTag("p"), Data(<<"a">>)}

\* documents with and without an html element at the top level
RootTokens ==
    {StartTag("html", <<>>), StartEndTag("html", <<>>), EndTag("html"),
     StartTag("p", <<>>), EndTag("p"), Data(<<"a">>)}

\* byte buffers: a charset declaration, </head>, an <?xml?> declaration that
\* names an encoding, and text that is e-acute in UTF-8 and in ISO-8859-1
XmlGb2312 == PI("xml", <<<<"version", "1.0">>, <<"encoding", "gb2312">>>>, TRUE)

EncTokens ==
    {XmlGb2312, StartTag("html", <<>>),
     StartTag("meta", <<<<"charset", "utf-8">>>>), EndTag("head"),
     Data(<<"C3", "A9">>), Data(<<"E9">>)}

\* the encoding argument of the constructor
Encodings == {"", "utf-8"}

\* documents for html_fromstring: with and without html, head and body
HtmlTokens ==
    {StartTag("html", <<>>), EndTag("html"), StartTag("head", <<>>),
     StartTag("body", <<>>), StartTag("p", <<>>), Data(<<"a">>)}

BlankDocs == {<<>>, <<Data(<<" ", "\n">>)>>}

\* documents to parse and serialize: text that is not ASCII, a charset
\* declaration, a DOCTYPE, a comment, void and nested elements
RoundTokens ==
    {StartTag("p", <<>>), EndTag("p"), StartTag("br", <<>>),
     Data(<<"a">>), Data(<<"E9">>),
     StartTag("meta", <<<<"charset", "utf-8">>>>),
     Decl(<<"d", "1">>), CommentTok(<<" ", "c", " ">>)}

\* documents for an instance that is used again: a charset declaration,
\* text that is e-acute in UTF-8, a DOCTYPE (twice: a fatal error), elements
ReuseTokens ==
    {StartTag("meta", <<<<"charset", "utf-8">>>>), Data(<<"C3", "A9">>),
     Decl(<<"d", "1">>), StartTag("p", <<>>), StartTag("div", <<>>)}

\* documents to serialize: an <?xml?> instruction with and without a
\* version, a DOCTYPE, a comment, an element, text that is not ASCII
XmlNoVersion == PI("xml", <<<<"encoding", "gb2312">>>>, TRUE)

SerTokens ==
    {XmlGb2312, XmlNoVersion, Decl(<<"d", "1">>), StartTag("p", <<>>),
     Data(<<"E9">>), CommentTok(<<"c">>)}

\* the encoding argument of the parser whose Document is serialized
SerParserEncodings == {"", "iso-8859-1"}

\* the arguments of tostring
SerEncodings == {"", "unicode", "Unicode", "iso-8859-1"}
Methods == {"html", "xml", "xhtml"}
XmlDeclarations == {PyNone, PyTrue, PyFalse}

\* the nodes of the tree under n
RECURSIVE Descendants(_, _)
Descendants(ns, n) ==
    {n} \cup UNION {Descendants(ns, ns[n].children[i]) :
                       i \in 1..Len(ns[n].children)}

\* the calls made on a pair of instances: feed() of text and of bytes,
\* and close()
PairCalls ==
    {[op |-> "feed", bytes |-> FALSE, data |-> <<t>>] :
        t \in {StartTag("p", <<>>), EndTag("p"), Data(<<"a">>)}}
    \cup {[op |-> "feed", bytes |-> TRUE, data |-> <<t>>] :
        t \in {StartTag("meta", <<<<"charset", "utf-8">>>>),
               Data(<<"C3", "A9">>)}}
    \cup {[op |-> "close", bytes |-> FALSE, data |-> <<>>]}

RECURSIVE SeqsUpTo(_, _)
SeqsUpTo(S, n) ==
    IF n = 0 THEN {<<>>}
    ELSE LET r == SeqsUpTo(S, n - 1)
         IN r \cup {Append(c, t) : c \in {x \in r : Len(x) = n - 1}, t \in S}

Chunks == SeqsUpTo(Tokens, MaxChunk) \ {<<>>}
DeclChunks == SeqsUpTo(DeclTokens, MaxChunk) \ {<<>>}
TargetChunks == SeqsUpTo(TargetTokens, MaxChunk) \ {<<>>}
DoneChunks == SeqsUpTo(DoneTokens, MaxChunk) \ {<<>>}
SearchChunks == SeqsUpTo(SearchTokens, MaxChunk) \ {<<>>}
RootChunks == SeqsUpTo(RootTokens, MaxChunk) \ {<<>>}
EncChunks == SeqsUpTo(EncTokens, MaxChunk) \ {<<>>}
EndChunks == SeqsUpTo(EndTokens, MaxChunk) \ {<<>>}
LiveChunks == SeqsUpTo(LiveTokens, MaxChunk) \ {<<>>}
SeekChunks == SeqsUpTo(SeekTokens, MaxChunk) \ {<<>>}
FlushChunks == SeqsUpTo(FlushTokens, MaxChunk) \ {<<>>}
KeepChunks == SeqsUpTo(KeepTokens, MaxChunk) \ {<<>>}
CommentChunks == SeqsUpTo(CommentTokens, MaxChunk) \ {<<>>}
HtmlDocs == SeqsUpTo(HtmlTokens, MaxDoc) \cup BlankDocs
RoundDocs == SeqsUpTo(RoundTokens, MaxDoc)
ReuseDocs == SeqsUpTo(ReuseTokens, MaxChunk)
SerDocs == SeqsUpTo(SerTokens, MaxChunk)

\* the ways to cut a document into chunks that are not empty
RECURSIVE Splits(_)
Splits(d) ==
    IF d = <<>> THEN {<<>>}
    ELSE UNION {{<<SubSeq(d, 1, k)>> \o r : r \in Splits(SubSeq(d, k + 1, Len(d)))} :
                   k \in 1..Len(d)}

ChunkLists == UNION {Splits(d) : d \in SeqsUpTo(EncTokens, MaxDoc)}

(***************************************************************************)
(* The state machine.                                                      *)
(***************************************************************************)
\* a call on the instance self: what it leaves; no other instance is used
Took(w) ==
    /\ self' = w.p
    /\ nodes' = w.nodes
    /\ trees' = w.trees
    /\ seen' = w.seen
    /\ raised' = w.exc
    /\ peer' = peer

\* no second instance
NoPeer == <<>>

InitWith(F) ==
    \E c \in F :
        LET w == HTMLParser(c.tag, c.attrs, "")
        IN /\ self = w.p
           /\ nodes = w.nodes
           /\ trees = w.trees
           /\ seen = w.seen
           /\ closedSeen = <<>>
           /\ raised = ""
           /\ result = 0
           /\ lastCall = [op |-> "init", data |-> <<>>, bytes |-> FALSE,
                           used |-> ""]
           /\ nfed = 0
           /\ peer = NoPeer

Init == InitWith(NoFilter)
InitDecl == InitWith(NoFilter \cup DivFilter)
InitTarget == InitWith(DivFilter \cup IdMainFilter)
InitSearch == InitWith(Filters)
InitDone == InitWith(DivFilter)

\* HTMLParser(encoding=...)
InitEnc ==
    \E e \in Encodings :
        LET w == HTMLParser("", NoAttrs, e)
        IN /\ self = w.p
           /\ nodes = w.nodes
           /\ trees = w.trees
           /\ seen = w.seen
           /\ closedSeen = <<>>
           /\ raised = ""
           /\ result = 0
           /\ lastCall = [op |-> "init", data |-> <<>>, bytes |-> FALSE,
                           used |-> ""]
           /\ nfed = 0
           /\ peer = NoPeer

\* two instances, HTMLParser(encoding=e) and HTMLParser(): the second is
\* constructed after the first, in the same heaps.  calls is history: the
\* calls made on each of the two.
InitPair ==
    \E e \in Encodings :
        LET a == HTMLParser("", NoAttrs, e)
            b == _init([a EXCEPT !.p.encoding = "", !.p.given_encoding = ""])
        IN /\ self = a.p
           /\ nodes = b.nodes
           /\ trees = b.trees
           /\ seen = <<>>
           /\ closedSeen = <<>>
           /\ raised = ""
           /\ result = 0
           /\ lastCall = [op |-> "init", data |-> <<>>, bytes |-> FALSE,
                           used |-> ""]
           /\ nfed = 0
           /\ peer = [p |-> b.p, seen |-> <<>>, raised |-> "", result |-> 0,
                       calls |-> <<<<>>, <<>>>>]

InitReuse == InitEnc \/ InitWith(DivFilter)
InitEnd == InitWith(NoFilter \cup DivFilter)
InitLive == InitWith(DivFilter \cup BrFilter)
InitSeek == InitWith(DivFilter \cup IdMainFilter)
InitFlush == InitWith(NoFilter)
InitKeep == InitWith(NoFilter \cup DivFilter)
InitComment == InitWith(NoFilter \cup DivFilter)

\* parser.feed(data), within a budget of max tokens
FeedChunk(data, max) ==
    /\ Len(trees) <= MaxDocs
    /\ nfed + Len(data) <= max
    /\ \E w \in {feed(World, data)} : Took(w)
    /\ lastCall' = [op |-> "feed", data |-> data, bytes |-> FALSE, used |-> ""]
    /\ nfed' = nfed + Len(data)
    /\ UNCHANGED <<result, closedSeen>>

\* parser.feed(data) with data a byte buffer
FeedBytesChunk(data, max) ==
    /\ Len(trees) <= MaxDocs
    /\ nfed + Len(data) <= max
    /\ \E w \in {feed_bytes(World, data)} :
          /\ Took(w)
          /\ lastCall' = [op |-> "feed", data |-> data, bytes |-> TRUE,
                          used |-> w.used]
    /\ nfed' = nfed + Len(data)
    /\ UNCHANGED <<result, closedSeen>>

\* a call of one of the module's functions with parser=None, the first
\* call of a run: the state is that of the parser the function makes
Returned(r, call) ==
    /\ Took(r.w)
    /\ result' = r.ret
    /\ lastCall' = call
    /\ closedSeen' = <<>>
    /\ UNCHANGED nfed

\* html_fromstring(text, full=full)
ParseHtml ==
    /\ lastCall.op = "init"
    /\ \E toks \in HtmlDocs, bytes \in BOOLEAN, full \in BOOLEAN :
        \E r \in {html_fromstring(HTMLParser("", NoAttrs, ""),
                                   [bytes |-> bytes, toks |-> toks], full)} :
           Returned(r, [op |-> "html_fromstring", data |-> toks,
                        bytes |-> bytes, used |-> r.w.used, full |-> full])

\* fromstringlist(sequence)
ParseList ==
    /\ lastCall.op = "init"
    /\ \E sequence \in ChunkLists, bytes \in BOOLEAN :
        \E r \in {fromstringlist(HTMLParser("", NoAttrs, ""), sequence, bytes)} :
           Returned(r, [op |-> "fromstringlist", data |-> sequence,
                        bytes |-> bytes, used |-> r.w.used])

\* fromstring(text) of a new document
Parse ==
    /\ lastCall.op = "init"
    /\ \E toks \in RoundDocs, bytes \in BOOLEAN :
        \E r \in {fromstring(HTMLParser("", NoAttrs, ""),
                              [bytes |-> bytes, toks |-> toks])} :
           Returned(r, [op |-> "fromstring", data |-> toks, bytes |-> bytes,
                        used |-> r.w.used, pass |-> 1])

\* tostring(element) of the element the last fromstring returned
Serialize ==
    /\ lastCall.op = "fromstring" /\ raised = "" /\ result # 0
    /\ \E out \in {tostring(World, result, "", "html", TRUE, PyNone)} :
          lastCall' = [op |-> "tostring", data |-> lastCall.data,
                       bytes |-> lastCall.bytes, used |-> "",
                       pass |-> lastCall.pass,
                       out |-> [bytes |-> out.bytes, toks |-> out.toks]]
    /\ UNCHANGED <<self, nodes, trees, raised, result, seen, closedSeen, nfed,
                   peer>>

\* fromstring(text) of what the last tostring returned
ParseAgain ==
    /\ lastCall.op = "tostring" /\ lastCall.pass < MaxPass
    /\ \E r \in {fromstring(HTMLParser("", NoAttrs, ""), lastCall.out)} :
          Returned(r, [op |-> "fromstring", data |-> lastCall.out.toks,
                       bytes |-> lastCall.out.bytes, used |-> r.w.used,
                       pass |-> lastCall.pass + 1])

\* html_fromstring(text, parser=HTMLParser(encoding=e)): the Document to
\* serialize, its html root with the head and the body it was given
ParseToSerialize ==
    /\ lastCall.op = "init"
    /\ \E toks \in SerDocs, e \in SerParserEncodings :
        \E r \in {html_fromstring(HTMLParser("", NoAttrs, e),
                                   [bytes |-> FALSE, toks |-> toks], TRUE)} :
           Returned(r, [op |-> "html_fromstring", data |-> toks,
                        bytes |-> FALSE, used |-> r.w.used, full |-> TRUE])

\* tostring(element, encoding, method, full, xml_declaration=...) on a node
\* of the tree the parse returned
TostringOf ==
    /\ lastCall.op = "html_fromstring" /\ raised = "" /\ result # 0
    /\ \E element \in Descendants(nodes, result), encoding \in SerEncodings,
          method \in Methods, full \in BOOLEAN,
          xml_declaration \in XmlDeclarations :
        \E out \in {tostring(World, element, encoding, method, full,
                              xml_declaration)} :
           /\ lastCall' = [op |-> "tostring", element |-> element,
                           encoding |-> encoding, method |-> method,
                           full |-> full, xml_declaration |-> xml_declaration,
                           out |-> out]
           /\ raised' = out.exc
    /\ UNCHANGED <<self, nodes, trees, result, seen, closedSeen, nfed, peer>>

\* the instance is new, or close() has completed on it (by returning, or
\* by raising the error of a filter that never matched)
CloseCompleted ==
    \/ lastCall.op \in {"init", "close"}
    \/ lastCall.op = "fromstring" /\ raised \in {"", TargetNotFound}

\* fromstring(text, parser=parser) on the instance
ParseOn ==
    /\ CloseCompleted
    /\ Len(trees) <= MaxParses
    /\ \E toks \in ReuseDocs, bytes \in BOOLEAN :
        \E r \in {fromstring(World, [bytes |-> bytes, toks |-> toks])} :
           /\ Took(r.w)
           /\ result' = r.ret
           /\ lastCall' = [op |-> "fromstring", data |-> toks, bytes |-> bytes,
                           used |-> r.w.used]
           /\ closedSeen' = <<>>
           /\ UNCHANGED nfed

\* parser.close() after feed() has raised inside fromstring
CloseAfterError ==
    /\ lastCall.op = "fromstring" /\ raised \notin {"", TargetNotFound}
    /\ \E c \in {close(World)} : Took(c.w) /\ result' = c.ret
    /\ lastCall' = [op |-> "close", data |-> <<>>, bytes |-> FALSE, used |-> ""]
    /\ closedSeen' = seen
    /\ UNCHANGED nfed

\* one call on an instance, in the world of that instance: what it leaves
\* and what it returns (none for feed)
Apply(w, call) ==
    IF call.op = "close" THEN close(w)
    ELSE [w |-> feed_any(w, [bytes |-> call.bytes, toks |-> call.data]),
          ret |-> 0]

\* the world of the second instance: its attributes, the same heaps
PeerWorld ==
    [p |-> peer.p, nodes |-> nodes, trees |-> trees, exc |-> "",
     seen |-> peer.seen, used |-> ""]

\* a call on the first instance of the pair
CallSelf ==
    /\ nfed < MaxCalls
    /\ \E call \in PairCalls :
        \E r \in {Apply(World, call)} :
           /\ self' = r.w.p
           /\ nodes' = r.w.nodes
           /\ trees' = r.w.trees
           /\ seen' = r.w.seen
           /\ raised' = r.w.exc
           /\ result' = IF call.op = "close" THEN r.ret ELSE result
           /\ closedSeen' = IF call.op = "close" THEN seen ELSE closedSeen
           /\ lastCall' = [op |-> call.op, data |-> call.data,
                           bytes |-> call.bytes, used |-> r.w.used, on |-> 1]
           /\ peer' = [peer EXCEPT !.calls[1] = Append(@, call)]
    /\ nfed' = nfed + 1

\* a call on the second instance of the pair
CallPeer ==
    /\ nfed < MaxCalls
    /\ \E call \in PairCalls :
        \E r \in {Apply(PeerWorld, call)} :
           /\ nodes' = r.w.nodes
           /\ trees' = r.w.trees
           /\ lastCall' = [op |-> call.op, data |-> call.data,
                           bytes |-> call.bytes, used |-> r.w.used, on |-> 2]
           /\ peer' = [peer EXCEPT
                          !.p = r.w.p,
                          !.seen = r.w.seen,
                          !.raised = r.w.exc,
                          !.result = IF call.op = "close" THEN r.ret ELSE @,
                          !.calls[2] = Append(@, call)]
    /\ nfed' = nfed + 1
    /\ UNCHANGED <<self, seen, raised, result, closedSeen>>

Feed == \E data \in Chunks : FeedChunk(data, MaxFed)

FeedEncText == \E data \in EncChunks : FeedChunk(data, MaxFed)

FeedEncBytes == \E data \in EncChunks : FeedBytesChunk(data, MaxFed)

FeedDecl == \E data \in DeclChunks : FeedChunk(data, MaxFed)

FeedTarget == \E data \in TargetChunks : FeedChunk(data, MaxFed)

FeedDone == \E data \in DoneChunks : FeedChunk(data, MaxFedDone)

FeedSearch == \E data \in SearchChunks : FeedChunk(data, MaxFed)

FeedRoot == \E data \in RootChunks : FeedChunk(data, MaxFed)

FeedEnd == \E data \in EndChunks : FeedChunk(data, MaxFedDone)

FeedLive == \E data \in LiveChunks : FeedChunk(data, MaxFedDone)

FeedSeek == \E data \in SeekChunks : FeedChunk(data, MaxFed)

FeedFlush == \E data \in FlushChunks : FeedChunk(data, MaxFedFlush)

FeedKeep == \E data \in KeepChunks : FeedChunk(data, MaxFed)

FeedComment == \E data \in CommentChunks : FeedChunk(data, MaxFed)

\* parser.close()
Close ==
    /\ Len(trees) <= MaxDocs
    /\ \E c \in {close(World)} : Took(c.w) /\ result' = c.ret
    /\ lastCall' = [op |-> "close", data |-> <<>>, bytes |-> FALSE, used |-> ""]
    /\ closedSeen' = seen
    /\ UNCHANGED nfed

Next == Feed \/ Close
NextDecl == FeedDecl \/ Close
NextTarget == FeedTarget \/ Close
NextDone == FeedDone \/ Close
NextSearch == FeedSearch \/ Close
NextRoot == FeedRoot \/ Close
NextEnc == FeedEncText \/ FeedEncBytes \/ Close
NextHtml == ParseHtml
NextList == ParseList
NextRound == Parse \/ Serialize \/ ParseAgain
NextReuse == ParseOn \/ CloseAfterError
NextPair == CallSelf \/ CallPeer
NextSer == ParseToSerialize \/ TostringOf
NextEnd == FeedEnd \/ Close
NextLive == FeedLive \/ Close
NextSeek == FeedSeek \/ Close
NextFlush == FeedFlush \/ Close
NextKeep == FeedKeep \/ Close
NextComment == FeedComment \/ Close

\* documents without a filter
Spec == Init /\ [][Next]_vars
\* declarations and processing instructions, with and without a filter
SpecDecl == InitDecl /\ [][NextDecl]_vars
\* parsers constructed with a target filter
SpecTarget == InitTarget /\ [][NextTarget]_vars
\* a parser with a filter, fed past the end of the matched root
SpecDone == InitDone /\ [][NextDone]_vars
\* the filters of the constructor against candidate start tags
SpecSearch == InitSearch /\ [][NextSearch]_vars
\* documents without a filter, around the html element
SpecRoot == Init /\ [][NextRoot]_vars
\* byte buffers and text, with and without an explicit encoding
SpecEnc == InitEnc /\ [][NextEnc]_vars
\* html_fromstring on documents with and without html, head and body
SpecHtml == Init /\ [][NextHtml]_vars
\* fromstringlist on every split of a document into chunks
SpecList == Init /\ [][NextList]_vars
\* fromstring and tostring in turn
SpecRound == Init /\ [][NextRound]_vars
\* one instance, with or without an encoding or a filter, parsing documents
\* one after the other
SpecReuse == InitReuse /\ [][NextReuse]_vars
\* html_fromstring, then tostring with every combination of its arguments
SpecSer == Init /\ [][NextSer]_vars
\* two instances, their feed() and close() calls in any order
SpecPair == InitPair /\ [][NextPair]_vars
\* end tags on stacks of open elements, with and without a target filter
SpecEnd == InitEnd /\ [][NextEnd]_vars
\* a target that is pushed on the stack and a void target; the caller goes on while it can
SpecLive == InitLive /\ [][NextLive]_vars /\ WF_vars(NextLive)
\* every kind of token in front of the target of a filter
SpecSeek == InitSeek /\ [][NextSeek]_vars
\* text before and after the end tag of the synthetic container
SpecFlush == InitFlush /\ [][NextFlush]_vars
\* text, comments and elements at the top level and under html, up to close()
SpecKeep == InitKeep /\ [][NextKeep]_vars
\* comments with and without text, on open elements and while searching
SpecComment == InitComment /\ [][NextComment]_vars

(***************************************************************************)
(* Vocabulary of the claims.                                               *)
(***************************************************************************)
Last(q) == q[Len(q)]
IsStart(t) == t.kind \in {"start", "startend"}
IsPrefix(a, b) == Len(a) <= Len(b) /\ SubSeq(b, 1, Len(a)) = a
Range(q) == {q[i] : i \in 1..Len(q)}
Fed == lastCall.op = "feed"
Closed == lastCall.op = "close"
TagNames == {"div", "p", "html", "br"}

\* the synthetic container of the document being parsed
IsContainer(n) == nodes[n].born = 0 /\ nodes[n].roottree = self._roottree

\* the filter as documented: the tag is the target tag, every wanted
\* attribute is carried by some attribute of the candidate (True: with any
\* value), every attribute declared False is absent
Satisfies(tok) ==
    /\ tok.tag = self.tag
    /\ \A k \in DOMAIN self._init_attrs :
          LET v == self._init_attrs[k]
              has(x) == \E i \in 1..Len(tok.attrs) :
                            tok.attrs[i][1] = k /\ (x = PyTrue \/ tok.attrs[i][2] = x)
          IN IF v = PyFalse THEN ~has(PyTrue) ELSE has(v)

\* position in q of the first start tag that satisfies the filter, 0 if none
FirstMatch(q) ==
    LET hits == {i \in 1..Len(q) : IsStart(q[i]) /\ Satisfies(q[i])}
    IN IF hits = {} THEN 0 ELSE CHOOSE i \in hits : \A j \in hits : i <= j

(***************************************************************************)
(* C1: while a document is being parsed the tag stack is not empty and its *)
(* bottom entry is the synthetic container.  The code pops the container   *)
(* on </html>: C1_StackHoldsContainer is violated.                         *)
(***************************************************************************)
C1_StackHoldsContainer ==
    self._elem # <<>> /\ IsContainer(self._elem[1])

(***************************************************************************)
(* C2: feed() and close() raise only for a duplicate DOCTYPE, a duplicate  *)
(* or late <?xml?> instruction, or close() with a filter that never        *)
(* matched.  The code also raises IndexError once the stack is empty,      *)
(* ParseError on a malformed instruction and RuntimeError on a late        *)
(* DOCTYPE: C2_OnlyThreeFatalCases is violated.                            *)
(***************************************************************************)
DuplicateDecl(q) ==
    /\ q # <<>> /\ Last(q).kind = "decl"
    /\ \E j \in 1..Len(q) - 1 : q[j].kind = "decl"

DuplicateOrLateXmlPI(q) ==
    /\ q # <<>> /\ Last(q).kind = "pi" /\ Last(q).tag = "xml"
    /\ \E j \in 1..Len(q) - 1 :
          (q[j].kind = "pi" /\ q[j].tag = "xml") \/ IsStart(q[j])

C2_OnlyThreeFatalCases ==
    raised # "" =>
        \/ Fed /\ (DuplicateDecl(seen) \/ DuplicateOrLateXmlPI(seen))
        \/ Closed /\ self.tag # "" /\ FirstMatch(closedSeen) = 0

(***************************************************************************)
(* C3: an end tag that names neither the top nor the second-from-top entry *)
(* of the stack does not raise and leaves the stack, the tree and the      *)
(* pending text as they were.  On the empty stack C1 allows, the code      *)
(* raises IndexError: C3_StrayEndTagIgnored is violated.  With a stack     *)
(* that is not empty the statement holds (C3_StrayEndTagOnStack).          *)
(***************************************************************************)
NamesTopOrSecond(t) ==
    LET st == self._elem
    IN \/ Len(st) >= 1 /\ nodes[st[Len(st)]].tag = t
       \/ Len(st) >= 2 /\ nodes[st[Len(st) - 1]].tag = t

StrayEndTagStep(t) ==
    /\ self.rawdata = <<>>
    /\ ~NamesTopOrSecond(t)
    /\ lastCall'.op = "feed" /\ lastCall'.data = <<EndTag(t)>>

StrayEndTagIgnored ==
    /\ raised' = ""
    /\ self'._elem = self._elem
    /\ nodes' = nodes
    /\ self'._data = self._data

C3_StrayEndTagIgnored ==
    [][\A t \in TagNames : StrayEndTagStep(t) => StrayEndTagIgnored]_vars

C3_StrayEndTagOnStack ==
    [][\A t \in TagNames :
          StrayEndTagStep(t) /\ self._elem # <<>> => StrayEndTagIgnored]_vars

\* <p>a</div>b in short: text, a stray end tag, text, close()
C3_Witness ==
    /\ Closed /\ raised = ""
    /\ Len(closedSeen) = 3 /\ closedSeen[2] = EndTag("p")
    /\ nodes[result].text = <<"a", "b">>

(***************************************************************************)
(* C4: an element with a void tag is never on the tag stack and never has  *)
(* children, written as a start tag or as a self-closing tag; the text     *)
(* that follows its start tag becomes its tail; an end tag with a void     *)
(* name changes nothing.                                                   *)
(***************************************************************************)
IsVoid(n) == nodes[n].tag \in _voids

VoidOffStack ==
    \A n \in 1..Len(nodes) :
        IsVoid(n) =>
            /\ n \notin Range(self._elem)
            /\ nodes[n].children = <<>>
            /\ nodes[n].text = None
            /\ (self._last = n => self._tail = 1)

\* a void start tag followed by text: the text is pending for its tail
VoidStartThenText ==
    \A v \in TagNames \cap _voids, k \in {"start", "startend"}, d \in {<<"a">>, <<"b">>} :
        (/\ lastCall'.op = "feed"
         /\ lastCall'.data = <<Tok(k, v, <<>>, <<>>, TRUE), Data(d)>>
         /\ self.rawdata = <<>> /\ self._enabled /\ ~self._finished
         /\ self._elem # <<>>)
        => /\ raised' = ""
           /\ Len(nodes') = Len(nodes) + 1
           /\ nodes'[Len(nodes')].tag = v
           /\ self'._last = Len(nodes') /\ self'._tail = 1
           /\ self'._data = <<d>>
           /\ self'._elem = self._elem

\* text pending behind a void element is kept, or flushed to its tail
VoidTextToTail ==
    (self._data # <<>> /\ IsVoid(self._last))
    => \/ self'._last = self._last /\ IsPrefix(self._data, self'._data)
       \/ IsPrefix(join(self._data), nodes'[self._last].tail)

VoidEndTagIgnored ==
    \A v \in TagNames \cap _voids :
        (lastCall'.op = "feed" /\ lastCall'.data = <<EndTag(v)>>
         /\ self.rawdata = <<>>)
        => self' = self /\ nodes' = nodes /\ trees' = trees /\ raised' = ""

C4_VoidElements ==
    /\ []VoidOffStack
    /\ [][VoidStartThenText /\ VoidTextToTail /\ VoidEndTagIgnored]_vars

C4_Witness ==
    /\ Closed /\ raised = ""
    /\ \E n \in 1..Len(nodes) :
          /\ nodes[n].tag = "br" /\ nodes[n].tail = <<"a">>
          /\ closedSeen = <<StartTag("br", <<>>), Data(<<"a">>), EndTag("br")>>

(***************************************************************************)
(* C5: with a filter, close() returns the element created by the first     *)
(* start tag that satisfies the filter, and nothing before it creates a    *)
(* node.  The code's _search rejects candidates the documented filter      *)
(* accepts (C6): C5_RootIsFirstMatch is violated.                          *)
(***************************************************************************)
\* the document a node was created in: the number of containers up to it
DocOf(n) == Cardinality({m \in 1..n : nodes[m].born = 0})

C5_RootIsFirstMatch ==
    (Closed /\ self.tag # "" /\ FirstMatch(closedSeen) # 0)
    => /\ raised = ""
       /\ result # 0
       /\ nodes[result].born = FirstMatch(closedSeen)
       /\ \A n \in 1..Len(nodes) :
             DocOf(n) = DocOf(result) =>
                 nodes[n].born = 0 \/ nodes[n].born >= FirstMatch(closedSeen)

(***************************************************************************)
(* C6: the filter accepts a candidate start tag exactly when the tag is    *)
(* the target tag, every wanted attribute is carried by the candidate and  *)
(* every attribute declared False is absent.  _search returns False for a  *)
(* candidate without attributes whenever the filter names an attribute:    *)
(* C6_SearchIsTheFilter is violated.                                       *)
(***************************************************************************)
C6_SearchIsTheFilter ==
    [][\A tok \in SearchTokens :
          (/\ lastCall'.op = "feed" /\ lastCall'.data = <<tok>>
           /\ self.rawdata = <<>> /\ ~self._enabled)
          => (self'._enabled <=> Satisfies(tok))]_vars

(***************************************************************************)
(* C7: close() raises the target-not-found error exactly when a filter was *)
(* given and no start tag satisfied it; feed() never raises it.  Through   *)
(* C6 a satisfying start tag can go unmatched:                             *)
(* C7_NotFoundIffNoMatch is violated.                                      *)
(***************************************************************************)
C7_NotFoundIffNoMatch ==
    /\ Closed => (raised = TargetNotFound
                    <=> (self.tag # "" /\ FirstMatch(closedSeen) = 0))
    /\ Fed => raised # TargetNotFound

(***************************************************************************)
(* C8: with a filter, everything added after the match lies in the subtree *)
(* of the matched root.  A root that is not pushed (self-closing or void)  *)
(* is never closed, and what follows is added beside it:                   *)
(* C8_OnlyMatchedSubtree is violated.                                      *)
(***************************************************************************)
RECURSIVE Subtree(_)
Subtree(n) ==
    {n} \cup UNION {Subtree(nodes[n].children[i]) :
                       i \in 1..Len(nodes[n].children)}

C8_OnlyMatchedSubtree ==
    self._root # 0 =>
        /\ \A n \in 1..Len(nodes) :
              (DocOf(n) = DocOf(self._root) /\ nodes[n].born # 0)
                  => n \in Subtree(self._root)
        /\ nodes[self._root].tail = None
        /\ \A n \in 1..Len(nodes) :
              (DocOf(n) = DocOf(self._root) /\ nodes[n].born = 0)
                  => nodes[n].text = None /\ nodes[n].tail = None

\* the same, for a root that was pushed on the stack
C8_PushedRootSubtree ==
    (self._root # 0 /\ closedSeen = <<>>
        /\ seen[nodes[self._root].born].kind = "start") => C8_OnlyMatchedSubtree

(***************************************************************************)
(* C9: once the matched root has been popped the parser is DONE: a later   *)
(* feed() changes nothing and raises nothing, whatever it carries, and the *)
(* rest of the chunk in which the root closed is not dispatched.           *)
(***************************************************************************)
DoneFeedIsNoOp ==
    (self._finished /\ lastCall'.op = "feed")
    => self' = self /\ nodes' = nodes /\ trees' = trees /\ raised' = ""

RootPoppedIsDone ==
    (/\ lastCall'.op = "feed"
     /\ self._root \in Range(self._elem)
     /\ self._root \notin Range(self'._elem))
    => self'._finished

RestOfChunkDiscarded ==
    (lastCall'.op = "feed" /\ ~self._finished /\ self'._finished)
    => LET raw == self.rawdata \o lastCall'.data
       IN /\ raised' = ""
          /\ self'.rawdata = <<>>
          /\ \E k \in 1..Len(raw) :
                /\ raw[k].kind = "end"
                /\ seen' = seen \o SubSeq(raw, 1, k)

C9_DoneFeedsAreNoOps ==
    [][DoneFeedIsNoOp /\ RootPoppedIsDone /\ RestOfChunkDiscarded]_vars

\* DONE, and the last feed() carried a second DOCTYPE
C9_Witness ==
    /\ Fed /\ self._finished /\ raised = ""
    /\ self._doctype = <<"<", "!", "d", "1", ">">>
    /\ lastCall.data = <<Decl(<<"d", "2">>)>>

(***************************************************************************)
(* C10: one DOCTYPE and one <?xml?> instruction at most are recorded per   *)
(* document.  As amended: a second DOCTYPE, or a second <?xml?>            *)
(* instruction, that is dispatched before close() makes feed() raise, and  *)
(* what was recorded first stays as it is; a parser that is DONE           *)
(* dispatches nothing and does not raise.                                  *)
(***************************************************************************)
IsXmlPI(t) == t.kind = "pi" /\ t.tag = "xml"

RecordedStays ==
    lastCall'.op = "feed" =>
        /\ self._doctype # None =>
              /\ self'._doctype = self._doctype
              /\ trees'[self._roottree].doctype = trees[self._roottree].doctype
        /\ self._xmlinfo # None =>
              /\ self'._xmlinfo = self._xmlinfo
              /\ trees'[self._roottree].xmlinfo = trees[self._roottree].xmlinfo

SecondDispatchedRaises ==
    lastCall'.op = "feed" =>
        \A i \in (Len(seen) + 1)..Len(seen') :
            (\/ seen'[i].kind = "decl"
                  /\ \E j \in 1..(i - 1) : seen'[j].kind = "decl"
             \/ IsXmlPI(seen'[i])
                  /\ \E j \in 1..(i - 1) : IsXmlPI(seen'[j]))
            => raised' # "" /\ i = Len(seen')

\* the Document carries what the parser recorded
DocumentCarriesRecorded ==
    /\ trees[self._roottree].doctype = self._doctype
    /\ trees[self._roottree].xmlinfo = self._xmlinfo

C10_OneDeclOnePI ==
    /\ []DocumentCarriesRecorded
    /\ [][RecordedStays /\ SecondDispatchedRaises]_vars

C10_Witness ==
    /\ Fed /\ raised = "RuntimeError"
    /\ Last(seen) = Decl(<<"d", "2">>)
    /\ self._doctype = <<"<", "!", "d", "1", ">">>

\* the claim as written: a feed() that carries a second DOCTYPE or a second
\* <?xml?> instruction raises
C10_SecondFedRaises ==
    [][lastCall'.op = "feed" =>
          LET data == lastCall'.data
          IN (\E i \in 1..Len(data) :
                 \/ data[i].kind = "decl"
                      /\ (self._doctype # None
                            \/ \E j \in 1..(i - 1) : data[j].kind = "decl")
                 \/ IsXmlPI(data[i])
                      /\ (self._xmlinfo # None
                            \/ \E j \in 1..(i - 1) : IsXmlPI(data[j])))
             => raised' # ""]_vars

(***************************************************************************)
(* C11: a DOCTYPE or an <?xml?> instruction dispatched after the start tag *)
(* of the root element makes feed() raise and is not recorded, with or     *)
(* without a target filter.  _root is set only when a filter matches, so   *)
(* without a filter the late declaration is recorded:                      *)
(* C11_LateDeclRaises is violated.                                         *)
(***************************************************************************)
\* position in q of the start tag of the root element, 0 if none: the first
\* start tag, or with a filter the first that satisfies it
RootStart(q) ==
    IF self.tag # "" THEN FirstMatch(q)
    ELSE LET hits == {i \in 1..Len(q) : IsStart(q[i])}
         IN IF hits = {} THEN 0 ELSE CHOOSE i \in hits : \A j \in hits : i <= j

IsLate(q, i) == RootStart(q) # 0 /\ RootStart(q) < i

LateDeclRaisesUnrecorded ==
    lastCall'.op = "feed" =>
          /\ \A i \in (Len(seen) + 1)..Len(seen') :
                ((seen'[i].kind = "decl" \/ IsXmlPI(seen'[i])) /\ IsLate(seen', i))
                => raised' # "" /\ i = Len(seen')
          /\ trees'[self._roottree].doctype # None
                => \E j \in 1..Len(seen') :
                      seen'[j].kind = "decl" /\ ~IsLate(seen', j)
          /\ trees'[self._roottree].xmlinfo # None
                => \E j \in 1..Len(seen') :
                      IsXmlPI(seen'[j]) /\ ~IsLate(seen', j)

C11_LateDeclRaises == [][LateDeclRaisesUnrecorded]_vars

\* the same, for a parser constructed with a filter
C11_LateDeclRaisesWithFilter ==
    [][self.tag # "" => LateDeclRaisesUnrecorded]_vars

(***************************************************************************)
(* C12: without a filter, close() returns the html child of the synthetic  *)
(* container when the container has exactly one html child, and the        *)
(* container itself in every other case.  _close returns the first html    *)
(* child whatever else the container holds:                                *)
(* C12_HtmlChildOrContainer is violated.                                   *)
(***************************************************************************)
\* the synthetic container of the document close() has just resolved (the
\* newest container is the one _init created on the way out of close())
ClosedContainer ==
    LET cs == {n \in 1..(Len(nodes) - 1) : nodes[n].born = 0}
    IN CHOOSE n \in cs : \A m \in cs : m <= n

HtmlChildren(c) == {n \in Range(nodes[c].children) : nodes[n].tag = "html"}

C12_HtmlChildOrContainer ==
    (Closed /\ self.tag = "" /\ raised = "")
    => LET c == ClosedContainer
       IN IF Cardinality(HtmlChildren(c)) = 1
          THEN result \in HtmlChildren(c)
          ELSE result = c

\* the same, for containers that hold at most one html child
C12_AtMostOneHtmlChild ==
    (Closed /\ self.tag = "" /\ raised = ""
        /\ Cardinality(HtmlChildren(ClosedContainer)) <= 1)
    => C12_HtmlChildOrContainer

(***************************************************************************)
(* C16: a document that begins with <?xml version="1.0" encoding="gb2312"?>*)
(* followed by the root's start tag leaves the Document with encoding      *)
(* "gb2312" after close(), fed as bytes or as text.  Nothing reads the     *)
(* captured encoding (an Element without children is false, and text is   *)
(* never resolved): C16_XmlEncodingResolved is violated.                   *)
(***************************************************************************)
\* the Document of the parse close() has just ended
ClosedTree == trees[Len(trees) - 1]

C16_XmlEncodingResolved ==
    (/\ Closed /\ raised = "" /\ self.given_encoding = ""
     /\ Len(closedSeen) >= 2
     /\ closedSeen[1] = XmlGb2312 /\ closedSeen[2] = StartTag("html", <<>>))
    => ClosedTree.encoding = "gb2312"

(***************************************************************************)
(* C17: for bytes with no explicit encoding and no captured XML encoding,  *)
(* the charset is searched in the buffer up to and including </head>, or   *)
(* in the whole buffer when there is no </head>, and a complete            *)
(* <meta ... charset=...> in that window decides the encoding.  Without    *)
(* </head> the code cuts the last byte off the window, so a buffer that    *)
(* ends with the meta tag falls back: C17_MetaCharsetInWindow is violated. *)
(***************************************************************************)
\* the window as documented
DocumentedWindow(data) ==
    LET hits == {i \in 1..Len(data) : data[i] = EndTag("head")}
    IN IF hits = {} THEN data
       ELSE SubSeq(data, 1, CHOOSE i \in hits : \A j \in hits : i <= j)

\* charset of the first <meta ... charset=...> of a window, "" if none
DeclaredCharset(win) ==
    LET hits == {i \in 1..Len(win) :
                    /\ win[i].kind \in {"start", "startend"} /\ win[i].tag = "meta"
                    /\ \E k \in 1..Len(win[i].attrs) : win[i].attrs[k][1] = "charset"}
        m == win[CHOOSE i \in hits : \A j \in hits : i <= j]
        ks == {k \in 1..Len(m.attrs) : m.attrs[k][1] = "charset"}
    IN IF hits = {} THEN ""
       ELSE m.attrs[CHOOSE k \in ks : \A j \in ks : k <= j][2]

\* a feed() of bytes that has to resolve the encoding
ResolvingFeed ==
    /\ lastCall'.op = "feed" /\ lastCall'.bytes
    /\ self.encoding = "" /\ ~self._finished

C17_MetaCharsetInWindow ==
    [][ResolvingFeed =>
          LET cs == DeclaredCharset(DocumentedWindow(lastCall'.data))
          IN cs # "" => lastCall'.used = cs /\ self'.encoding = cs]_vars

\* the same, for buffers that hold </head> or do not end with the meta tag
C17_MetaNotLast ==
    [][(ResolvingFeed /\ ~IsMeta(Last(lastCall'.data))) =>
          LET cs == DeclaredCharset(DocumentedWindow(lastCall'.data))
          IN cs # "" => lastCall'.used = cs /\ self'.encoding = cs]_vars

(***************************************************************************)
(* C18: whenever bytes have been decoded, the Document's encoding is the   *)
(* encoding they were decoded with.  The fallback sets the parser's        *)
(* encoding but not the Document's: C18_DocumentEncodingIsUsed is violated.*)
(***************************************************************************)
DecodeErrors == {"UnicodeDecodeError", "LookupError"}

C18_DocumentEncodingIsUsed ==
    (Fed /\ lastCall.bytes /\ lastCall.used # "" /\ raised \notin DecodeErrors)
    => trees[self._roottree].encoding = lastCall.used

\* the same, for the outcomes other than the fallback
C18_NamedEncodingIsUsed ==
    (Fed /\ lastCall.bytes /\ lastCall.used \notin {"", "iso-8859-1"}
        /\ raised \notin DecodeErrors)
    => trees[self._roottree].encoding = lastCall.used

(***************************************************************************)
(* C19: feed() of bytes raises a decoding error only when an explicit      *)
(* encoding was given.  As amended: only when the bytes were decoded with  *)
(* an encoding that was named, by the caller or by a charset declaration   *)
(* of the document; when the resolver falls back to iso-8859-1, decoding   *)
(* does not fail.                                                          *)
(***************************************************************************)
\* the claim as written
C19_DecodeErrorOnlyExplicit ==
    (Fed /\ raised \in DecodeErrors) => self.given_encoding # ""

FallbackNeverFails ==
    (lastCall'.op = "feed" /\ lastCall'.bytes /\ self.encoding = ""
        /\ self'.encoding = "iso-8859-1")
    => raised' \notin DecodeErrors

DecodeErrorOnlyNamed ==
    (lastCall'.op = "feed" /\ raised' \in DecodeErrors)
    => /\ lastCall'.bytes
       /\ \/ self.encoding \notin {"", "iso-8859-1"}
          \/ self.encoding = "" /\ DeclaredCharset(lastCall'.data) # ""
       /\ self'.encoding # "iso-8859-1"

C19_DecodeErrorOnlyNamed ==
    [][FallbackNeverFails /\ DecodeErrorOnlyNamed]_vars

\* the fallback has decoded bytes that are not UTF-8
C19_Witness ==
    /\ Fed /\ lastCall.bytes /\ raised = ""
    /\ lastCall.used = "iso-8859-1" /\ self.given_encoding = ""
    /\ \E i \in 1..Len(seen) : seen[i] = Data(<<"E9">>)

(***************************************************************************)
(* C13: html_fromstring of empty or blank input returns an html root with  *)
(* exactly one head child and exactly one body child, both empty.  The     *)
(* skeleton this module parses carries <meta charset="utf-8" /> in its     *)
(* head: C13_BlankGivesEmptyHeadBody is violated.                          *)
(***************************************************************************)
ChildrenTagged(n, tag) == {c \in Range(nodes[n].children) : nodes[c].tag = tag}

IsEmptyElement(n) == nodes[n].children = <<>> /\ strip(nodes[n].text) = <<>>

C13_BlankGivesEmptyHeadBody ==
    (lastCall.op = "html_fromstring"
        /\ IsBlank([bytes |-> lastCall.bytes, toks |-> lastCall.data]))
    => /\ raised = "" /\ result # 0
       /\ nodes[result].tag = "html"
       /\ Cardinality(ChildrenTagged(result, "head")) = 1
       /\ Cardinality(ChildrenTagged(result, "body")) = 1
       /\ \A c \in ChildrenTagged(result, "head") \cup ChildrenTagged(result, "body") :
             IsEmptyElement(c)

(***************************************************************************)
(* C14: after html_fromstring with full, a root tagged html has a head and *)
(* a body child; a head is inserted as first child only when there was     *)
(* none, a body appended as last child only when there was none; the       *)
(* children that were parsed keep their places and their order; and        *)
(* normalizing again changes nothing.                                      *)
(***************************************************************************)
\* made by make_element, not by the parser
Inserted(n) == nodes[n].born = -1

Normalized(r) ==
    LET ch == nodes[r].children
        ins == {i \in 1..Len(ch) : Inserted(ch[i])}
    IN /\ ChildrenTagged(r, "head") # {} /\ ChildrenTagged(r, "body") # {}
       /\ \A i \in ins :
             \/ /\ nodes[ch[i]].tag = "head" /\ i = 1
                /\ Cardinality(ChildrenTagged(r, "head")) = 1
             \/ /\ nodes[ch[i]].tag = "body" /\ i = Len(ch)
                /\ Cardinality(ChildrenTagged(r, "body")) = 1
       \* the parsed children, in the order the parser appended them
       /\ \A i, j \in (1..Len(ch)) \ ins : i < j => ch[i] < ch[j]
       /\ ensure_head_body(World, r).nodes = nodes

C14_HeadAndBodyEnsured ==
    (lastCall.op = "html_fromstring" /\ raised = "" /\ result # 0)
    => IF lastCall.full /\ nodes[result].tag = "html"
       THEN Normalized(result)
       ELSE \A n \in 1..Len(nodes) : ~Inserted(n)

\* <html><body>: a head was inserted before the body that was there
C14_Witness ==
    /\ lastCall.op = "html_fromstring" /\ lastCall.full /\ raised = ""
    /\ lastCall.data = <<StartTag("html", <<>>), StartTag("body", <<>>)>>
    /\ Len(nodes[result].children) = 2
    /\ Inserted(nodes[result].children[1])
    /\ ~Inserted(nodes[result].children[2])

(***************************************************************************)
(* C15: tostring(fromstring(tostring(fromstring(d)))) is the same bytes as *)
(* tostring(fromstring(d)).  Text that is not ASCII is written as UTF-8    *)
(* and, without a charset declaration, read back as ISO-8859-1:            *)
(* C15_SerializeParseIdempotent is violated.                               *)
(***************************************************************************)
C15_SerializeParseIdempotent ==
    (lastCall.op = "tostring" /\ lastCall.pass >= 2)
    => lastCall.out = [bytes |-> lastCall.bytes, toks |-> lastCall.data]

\* the same, for documents of ASCII text
IsAscii(toks) ==
    \A i \in 1..Len(toks) : Range(toks[i].data) \cap High = {}

C15_AsciiIdempotent ==
    (lastCall.op = "tostring" /\ lastCall.pass >= 2 /\ IsAscii(lastCall.data))
    => lastCall.out = [bytes |-> lastCall.bytes, toks |-> lastCall.data]

(***************************************************************************)
(* C20: a document fed as chunks gives the same tree, doctype, xml_info    *)
(* and Document encoding as the concatenation of the chunks fed at once,   *)
(* for text and for bytes.  The encoding of bytes is resolved on the first *)
(* chunk alone, and each chunk is decoded by itself:                       *)
(* C20_ChunksAsConcatenation is violated.                                  *)
(***************************************************************************)
\* the nodes without their history
NoBorn(ns) == [i \in DOMAIN ns |-> [ns[i] EXCEPT !.born = 0]]

AsConcatenation ==
    LET one == fromstring(HTMLParser("", NoAttrs, ""),
                          [bytes |-> lastCall.bytes, toks |-> join(lastCall.data)])
    IN /\ raised = one.w.exc
       /\ raised = "" => /\ NoBorn(nodes) = NoBorn(one.w.nodes)
                         /\ ClosedTree = one.w.trees[Len(one.w.trees) - 1]
                         /\ result = one.ret

C20_ChunksAsConcatenation ==
    lastCall.op = "fromstringlist" => AsConcatenation

\* the same, for text
C20_TextChunksAsConcatenation ==
    (lastCall.op = "fromstringlist" /\ ~lastCall.bytes) => AsConcatenation

(***************************************************************************)
(* C21: a parser on which close() has completed behaves on the next        *)
(* document like a parser newly constructed with the same arguments: same  *)
(* tree, doctype, xml_info and resolved encoding (or the same error); and  *)
(* the Document of the earlier parse is not modified by the later one.     *)
(* The encoding resolved for one document and the unparsed input of a      *)
(* feed() that raised are kept by close(): C21_ParseAsFresh is violated.   *)
(***************************************************************************)
\* the tree under a node, without the places of its nodes in the heap
RECURSIVE TreeOf(_, _)
TreeOf(ns, n) ==
    [tag |-> ns[n].tag, attrib |-> ns[n].attrib,
     text |-> ns[n].text, tail |-> ns[n].tail,
     children |-> [i \in 1..Len(ns[n].children) |->
                      TreeOf(ns, ns[n].children[i])]]

\* what a call of fromstring gave: the error, or the tree and its Document
Outcome(r) ==
    IF r.w.exc # "" THEN [exc |-> r.w.exc]
    ELSE LET t == r.w.trees[Len(r.w.trees) - 1]
         IN [exc |-> "", tree |-> TreeOf(r.w.nodes, r.ret),
             doctype |-> t.doctype, xmlinfo |-> t.xmlinfo,
             encoding |-> t.encoding, resolved |-> r.w.p.encoding]

AsFresh ==
    lastCall.op = "fromstring" =>
        Outcome([w |-> [World EXCEPT !.exc = raised], ret |-> result])
        = Outcome(fromstring(
              HTMLParser(self.tag, self._init_attrs, self.given_encoding),
              [bytes |-> lastCall.bytes, toks |-> lastCall.data]))

\* the newest synthetic container: the document being parsed
NewestContainer ==
    LET cs == {n \in 1..Len(nodes) : nodes[n].born = 0}
    IN CHOOSE n \in cs : \A m \in cs : m <= n

EarlierDocumentKept ==
    /\ \A n \in 1..(NewestContainer - 1) : nodes'[n] = nodes[n]
    /\ \A t \in 1..(Len(trees) - 1) : trees'[t] = trees[t]

C21_ParseAsFresh == []AsFresh /\ [][EarlierDocumentKept]_vars

\* the part that holds: the earlier Document is not modified
C21_EarlierDocumentKept == [][EarlierDocumentKept]_vars

(***************************************************************************)
(* C22: two instances whose feed() and close() calls are interleaved in    *)
(* any order each have the tag stack, pending text, encoding, Document and *)
(* returned tree they have when the same calls are made on them alone; and *)
(* no call on one instance changes anything of the other.                  *)
(***************************************************************************)
\* the Document t of a world, its root as a tree
DocumentOf(w, t) ==
    [doctype |-> w.trees[t].doctype, xmlinfo |-> w.trees[t].xmlinfo,
     encoding |-> w.trees[t].encoding,
     root |-> IF w.trees[t]._root = 0 THEN <<>>
              ELSE <<TreeOf(w.nodes, w.trees[t]._root)>>]

\* all there is to see of an instance: its attributes, the trees on its
\* stack, its Document, what its last call raised and what its last close()
\* returned, without the places of the objects in the heaps
View(w, ret, exc) ==
    [exc |-> exc,
     stack |-> [i \in 1..Len(w.p._elem) |-> TreeOf(w.nodes, w.p._elem[i])],
     last |-> TreeOf(w.nodes, w.p._last),
     tail |-> w.p._tail,
     data |-> w.p._data,
     rawdata |-> w.p.rawdata,
     encoding |-> w.p.encoding,
     finished |-> w.p._finished,
     doctype |-> w.p._doctype,
     xmlinfo |-> w.p._xmlinfo,
     document |-> DocumentOf(w, w.p._roottree),
     returned |-> IF ret = 0 THEN <<>>
                  ELSE <<[tree |-> TreeOf(w.nodes, ret),
                          document |-> DocumentOf(w, w.nodes[ret].roottree)]>>]

SelfView == View(World, result, raised)
PeerView == View(PeerWorld, peer.result, peer.raised)

\* the same calls on an instance that is alone
RECURSIVE Replay(_, _)
Replay(r, calls) ==
    IF calls = <<>> THEN r
    ELSE CHOOSE x \in
             {Replay([w |-> a.w,
                      ret |-> IF Head(calls).op = "close" THEN a.ret ELSE r.ret],
                     Tail(calls)) :
                 a \in {Apply([r.w EXCEPT !.exc = ""], Head(calls))}} : TRUE

Alone(encoding, calls) ==
    LET r == Replay([w |-> HTMLParser("", NoAttrs, encoding), ret |-> 0], calls)
    IN View(r.w, r.ret, r.w.exc)

AsAlone ==
    peer # NoPeer =>
        /\ SelfView = Alone(self.given_encoding, peer.calls[1])
        /\ PeerView = Alone(peer.p.given_encoding, peer.calls[2])

OtherUntouched ==
    peer # NoPeer =>
        /\ lastCall'.on = 1 => PeerView' = PeerView
        /\ lastCall'.on = 2 => SelfView' = SelfView

C22_InterleavedAsAlone == []AsAlone /\ [][OtherUntouched]_vars

\* <p>a on the first instance with bytes fed to the second in between
C22_Witness ==
    /\ peer # NoPeer /\ lastCall.op = "feed" /\ lastCall.on = 1
    /\ Len(peer.calls[1]) = 2 /\ Len(peer.calls[2]) = 1
    /\ peer.calls[2][1].bytes /\ peer.p.encoding # ""
    /\ self._data = <<<<"a">>>> /\ Len(self._elem) = 2
    /\ Len(peer.p._elem) = 1

(***************************************************************************)
(* C23: tostring with full and method xml, html or xhtml serializes from   *)
(* the root of the Document the given element belongs to, whichever        *)
(* element of the document is passed; without full it serializes the given *)
(* element's subtree and adds no XML declaration and no doctype.  For a    *)
(* comment node, and for the head and body html_fromstring inserts (plain  *)
(* elements without a Document), tostring raises AttributeError; and       *)
(* without full the underlying routine writes a declaration for method xml *)
(* and an encoding other than UTF-8 and US-ASCII:                          *)
(* C23_FullFromRootElseSubtree is violated.                                *)
(***************************************************************************)
Serialized == lastCall.op = "tostring"

HasKind(toks, kind) == \E i \in 1..Len(toks) : toks[i].kind = kind

\* the tokens of the tree under n, written by the given method for the
\* given encoding
TreeTokens(n, method, encoding) ==
    merge_data(IF method = "html" THEN _serialize_html(nodes, n, encoding)
               ELSE _serialize_xml(nodes, n, encoding))

\* toks ends with the tokens tree
EndsWith(toks, tree) ==
    /\ Len(tree) <= Len(toks)
    /\ SubSeq(toks, Len(toks) - Len(tree) + 1, Len(toks)) = tree

FullFromRoot ==
    (Serialized /\ lastCall.full)
    => /\ raised = ""
       /\ \E encoding \in {"unicode", "iso-8859-1", "utf-8"} :
             EndsWith(lastCall.out.toks,
                      TreeTokens(result,
                                 IF lastCall.method = "html" THEN "html" ELSE "xml",
                                 encoding))

\* a declaration the caller asks for with xml_declaration=True is not one
\* that tostring adds
SubtreeOnly ==
    (Serialized /\ ~lastCall.full /\ raised = "")
    => /\ ~HasKind(lastCall.out.toks, "decl")
       /\ lastCall.xml_declaration # PyTrue => ~HasKind(lastCall.out.toks, "pi")
       /\ \E encoding \in {"unicode", "iso-8859-1", "us-ascii"} :
             LET tree == TreeTokens(lastCall.element,
                            IF lastCall.method = "html" THEN "html" ELSE "xml",
                            encoding)
             IN IF lastCall.xml_declaration # PyTrue
                THEN lastCall.out.toks = tree
                ELSE EndsWith(lastCall.out.toks, tree)

C23_FullFromRootElseSubtree == FullFromRoot /\ SubtreeOnly

\* the same, for the elements the parser made, and without full for the
\* calls that name no encoding or 'unicode'
C23_ParsedElementFromRoot ==
    /\ (Serialized /\ IsElement(nodes[lastCall.element])) => FullFromRoot
    /\ (Serialized /\ lastCall.encoding \in {"", "unicode"}) => SubtreeOnly

(***************************************************************************)
(* C24: with full and a method among xml, html and xhtml the output        *)
(* encoding is the encoding argument when one is given, else the encoding  *)
(* of the Document, else UTF-8; the result is text exactly when the name   *)
(* of the chosen encoding is 'unicode' in any case of letters, and bytes   *)
(* otherwise, and the tree is written in the chosen encoding.              *)
(***************************************************************************)
FullSerialized ==
    Serialized /\ lastCall.full /\ lastCall.method \in Methods /\ raised = ""

\* the Document of the element that was passed
DocumentOfCall == trees[nodes[lastCall.element].roottree]

ChosenEncoding ==
    IF lastCall.encoding # "" THEN lastCall.encoding
    ELSE IF DocumentOfCall.encoding # "" THEN DocumentOfCall.encoding
    ELSE "UTF-8"

IsUnicodeName(name) == name \in {"unicode", "Unicode"}

C24_OutputEncodingChoice ==
    FullSerialized
    => /\ lastCall.out.bytes = ~IsUnicodeName(ChosenEncoding)
       /\ EndsWith(lastCall.out.toks,
                   TreeTokens(result,
                              IF lastCall.method = "html" THEN "html" ELSE "xml",
                              IF IsUnicodeName(ChosenEncoding) THEN "unicode"
                              ELSE IF ChosenEncoding = "UTF-8" THEN "utf-8"
                              ELSE ChosenEncoding))

\* a tree with a letter outside ASCII, no encoding argument, a Document
\* whose encoding is iso-8859-1: bytes in iso-8859-1
C24_DocumentEncodingChosen ==
    /\ FullSerialized
    /\ lastCall.encoding = ""
    /\ DocumentOfCall.encoding = "iso-8859-1"
    /\ lastCall.out.bytes
    /\ \E i \in 1..Len(lastCall.out.toks) :
          /\ lastCall.out.toks[i].kind = "data"
          /\ \E j \in 1..Len(lastCall.out.toks[i].data) :
                lastCall.out.toks[i].data[j] = "E9"

(***************************************************************************)
(* C25: with full, a doctype recorded on the Document is written as it is, *)
(* once, and none is made up; without a recorded doctype method html       *)
(* writes <!DOCTYPE html>, method xhtml writes the XHTML 1.1 doctype and   *)
(* the tree as xml, and method xml writes no doctype; the same in the text *)
(* path and in the bytes path.                                             *)
(***************************************************************************)
\* the declarations of the output, in order
RECURSIVE DeclsOf(_)
DeclsOf(toks) ==
    IF toks = <<>> THEN <<>>
    ELSE (IF Head(toks).kind = "decl" THEN <<Head(toks)>> ELSE <<>>)
         \o DeclsOf(Tail(toks))

ExpectedDoctype ==
    IF DocumentOfCall.doctype # None THEN <<decl_of(DocumentOfCall.doctype)>>
    ELSE IF lastCall.method = "html" THEN <<decl_of(DefaultDoctype)>>
    ELSE IF lastCall.method = "xhtml" THEN <<decl_of(XhtmlDoctype)>>
    ELSE <<>>

C25_DoctypeChoice ==
    FullSerialized
    => /\ DeclsOf(lastCall.out.toks) = ExpectedDoctype
       /\ lastCall.method = "xhtml"
          => \E encoding \in {"unicode", "iso-8859-1", "utf-8"} :
                EndsWith(lastCall.out.toks, TreeTokens(result, "xml", encoding))

\* method xhtml on a Document without doctype, in the bytes path: the
\* XHTML 1.1 doctype before a tree written as xml
C25_XhtmlDoctypeInBytes ==
    /\ FullSerialized
    /\ lastCall.method = "xhtml"
    /\ lastCall.out.bytes
    /\ DocumentOfCall.doctype = None
    /\ DeclsOf(lastCall.out.toks) = <<decl_of(XhtmlDoctype)>>
    /\ \E i \in 1..Len(lastCall.out.toks) :
          lastCall.out.toks[i].kind = "startend"

(***************************************************************************)
(* C26: with full, an XML declaration is written whenever xml_declaration  *)
(* is true and never when it is false; when it is left out, one is written *)
(* for the methods xml and xhtml and none for method html.                 *)
(***************************************************************************)
\* the XML declarations of the output, in order
RECURSIVE XmlDeclsOf(_)
XmlDeclsOf(toks) ==
    IF toks = <<>> THEN <<>>
    ELSE (IF Head(toks).kind = "pi" /\ Head(toks).tag = "xml"
          THEN <<Head(toks)>> ELSE <<>>)
         \o XmlDeclsOf(Tail(toks))

DeclarationExpected ==
    \/ lastCall.xml_declaration = PyTrue
    \/ lastCall.xml_declaration = PyNone /\ lastCall.method \in {"xml", "xhtml"}

C26_DeclarationEmission ==
    FullSerialized
    => Len(XmlDeclsOf(lastCall.out.toks)) = (IF DeclarationExpected THEN 1 ELSE 0)

\* xml_declaration left out, method xhtml: a declaration is written
C26_XhtmlDeclaresByDefault ==
    /\ FullSerialized
    /\ lastCall.xml_declaration = PyNone
    /\ lastCall.method = "xhtml"
    /\ Len(XmlDeclsOf(lastCall.out.toks)) = 1

(***************************************************************************)
(* C27: the XML declaration tostring writes carries the version and the    *)
(* encoding captured from the parsed <?xml ...?> instruction when there    *)
(* was one (encoding="gb2312" in the document gives encoding="gb2312" in   *)
(* the output), and version is 1.0 when no version was captured.           *)
(***************************************************************************)
CapturedAttrib ==
    IF DocumentOfCall.xmlinfo = None THEN <<>>
    ELSE DocumentOfCall.xmlinfo[1].attrib

\* attrib has the pair key="value"; attrib has the key
Declares(attrib, key, value) ==
    \E i \in 1..Len(attrib) : attrib[i] = <<key, value>>

Names(attrib, key) == \E i \in 1..Len(attrib) : attrib[i][1] = key

C27_DeclarationCarriesCaptured ==
    (FullSerialized /\ XmlDeclsOf(lastCall.out.toks) # <<>>)
    => LET written == XmlDeclsOf(lastCall.out.toks)[1].attrs
       IN /\ \A i \in 1..Len(CapturedAttrib) :
                /\ Declares(written, CapturedAttrib[i][1], CapturedAttrib[i][2])
                /\ \A j \in 1..Len(written) :
                      written[j][1] = CapturedAttrib[i][1]
                      => written[j][2] = CapturedAttrib[i][2]
          /\ ~Names(CapturedAttrib, "version")
             => Declares(written, "version", "1.0")
          /\ Names(written, "encoding")

\* a document that declares encoding="gb2312" and no version: the output
\* declares gb2312 and version 1.0
C27_Gb2312Reproduced ==
    /\ FullSerialized
    /\ XmlDeclsOf(lastCall.out.toks) # <<>>
    /\ Declares(CapturedAttrib, "encoding", "gb2312")
    /\ ~Names(CapturedAttrib, "version")
    /\ Declares(XmlDeclsOf(lastCall.out.toks)[1].attrs, "encoding", "gb2312")
    /\ Declares(XmlDeclsOf(lastCall.out.toks)[1].attrs, "version", "1.0")

(***************************************************************************)
(* C28: the output of tostring with full is the XML declaration (when one  *)
(* is written), then the doctype (when there is one), then the serialized  *)
(* tree, in this order, with one newline between two parts, and each part  *)
(* at most once.                                                           *)
(***************************************************************************)
Newline == Data(<<"\n">>)

IsXmlDecl(tok) == tok.kind = "pi" /\ tok.tag = "xml"

\* toks without its first part and the newline after it, when the first
\* token is such a part
Behind(toks, IsPart(_)) ==
    IF toks # <<>> /\ IsPart(toks[1]) THEN SubSeq(toks, 3, Len(toks)) ELSE toks

IsDoctype(tok) == tok.kind = "decl"

PartsInOrder(toks) ==
    LET afterDeclaration == Behind(toks, IsXmlDecl)
        afterDoctype == Behind(afterDeclaration, IsDoctype)
    IN /\ IsXmlDecl(toks[1]) => Len(toks) >= 3 /\ toks[2] = Newline
       /\ IsDoctype(afterDeclaration[1])
          => Len(afterDeclaration) >= 3 /\ afterDeclaration[2] = Newline
       /\ \E encoding \in {"unicode", "iso-8859-1", "utf-8"} :
             afterDoctype =
                 TreeTokens(result,
                            IF lastCall.method = "html" THEN "html" ELSE "xml",
                            encoding)
       /\ Len(XmlDeclsOf(toks)) = (IF IsXmlDecl(toks[1]) THEN 1 ELSE 0)
       /\ Len(DeclsOf(toks)) = (IF IsDoctype(afterDeclaration[1]) THEN 1 ELSE 0)

C28_OutputOrder == FullSerialized => PartsInOrder(lastCall.out.toks)

\* all three parts: declaration, newline, doctype, newline, tree
C28_ThreeParts ==
    /\ FullSerialized
    /\ Len(lastCall.out.toks) >= 5
    /\ IsXmlDecl(lastCall.out.toks[1])
    /\ lastCall.out.toks[2] = Newline
    /\ IsDoctype(lastCall.out.toks[3])
    /\ lastCall.out.toks[4] = Newline
    /\ lastCall.out.toks[5].kind \in {"start", "startend"}

(***************************************************************************)
(* C29: an end tag of a non-void name in BUILDING state that names the top *)
(* of the stack flushes the pending text and pops one entry; one that      *)
(* names the entry under the top flushes and pops two entries; completion  *)
(* of the document is signalled exactly when a popped entry is the matched *)
(* root, and no entry under the root is popped.  With the matched root on  *)
(* top, </html> names the container under it (the container is an element  *)
(* html that end tags match, as in C1): the root is popped and the parse   *)
(* is complete after one pop, not two.  C29_EndTagPops is violated.        *)
(***************************************************************************)
\* feed() of one end tag, with nothing left in rawdata, in BUILDING state
EndTagStep ==
    /\ lastCall'.op = "feed"
    /\ Len(lastCall'.data) = 1
    /\ lastCall'.data[1].kind = "end"
    /\ lastCall'.data[1].tag \notin _voids
    /\ self.rawdata = <<>>
    /\ self._enabled /\ ~self._finished
    /\ self._elem # <<>>

NamesTop == nodes[self._elem[Len(self._elem)]].tag = lastCall'.data[1].tag

NamesSecond ==
    /\ ~NamesTop
    /\ Len(self._elem) >= 2
    /\ nodes[self._elem[Len(self._elem) - 1]].tag = lastCall'.data[1].tag

\* k entries are popped and the rest of the stack stays
Popped(k) ==
    /\ Len(self._elem) >= k
    /\ self'._elem = SubSeq(self._elem, 1, Len(self._elem) - k)

\* the pending text is in the slot _flush writes, and the buffer is empty
PendingFlushed ==
    /\ self'._data = <<>>
    /\ self._data # <<>>
       => IF self._tail = 1 THEN nodes'[self._last].tail = join(self._data)
          ELSE nodes'[self._last].text = join(self._data)

RootPopped ==
    \E i \in 1..Len(self._elem) :
        self._elem[i] = self._root /\ i > Len(self'._elem)

NothingUnderRootPopped ==
    \A i \in 1..Len(self._elem) :
        self._elem[i] = self._root => Len(self'._elem) >= i - 1

CompletionIffRootPopped ==
    /\ self'._finished <=> RootPopped
    /\ NothingUnderRootPopped

C29_EndTagPops ==
    [][EndTagStep
       => /\ NamesTop => Popped(1) /\ PendingFlushed
          /\ NamesSecond => Popped(2) /\ PendingFlushed
          /\ (NamesTop \/ NamesSecond) => CompletionIffRootPopped]_vars

\* the same, with one pop when the first entry popped is the matched root
C29_EndTagPopsToRoot ==
    [][EndTagStep
       => /\ NamesTop => Popped(1) /\ PendingFlushed
          /\ NamesSecond
             => /\ PendingFlushed
                /\ IF self._elem[Len(self._elem)] = self._root
                   THEN Popped(1) ELSE Popped(2)
          /\ (NamesTop \/ NamesSecond) => CompletionIffRootPopped]_vars

(***************************************************************************)
(* C30: whenever pending text is flushed in BUILDING state it is written   *)
(* onto the element on top of the stack: as its text when no child         *)
(* (element or comment) has been appended to it, else as the tail of the   *)
(* child appended to it last.  handle_comment appends the comment without  *)
(* a flush and without moving _last, so text around a comment goes to the  *)
(* slot that was current before the comment: C30_FlushOntoTop is violated. *)
(***************************************************************************)
\* a step that flushes pending text in BUILDING state: close(), or feed()
\* of one token whose handler calls _flush
FlushStep ==
    /\ self._enabled /\ ~self._finished
    /\ self._elem # <<>>
    /\ self._data # <<>>
    /\ self.rawdata = <<>>
    /\ \/ lastCall'.op = "close"
       \/ /\ lastCall'.op = "feed"
          /\ Len(lastCall'.data) = 1
          /\ lastCall'.data[1].kind \in {"start", "startend", "end"}
          /\ self'._data = <<>>

TopOfStack == self._elem[Len(self._elem)]

WrittenOntoTop ==
    IF nodes[TopOfStack].children = <<>>
    THEN nodes'[TopOfStack].text = join(self._data)
    ELSE nodes'[Last(nodes[TopOfStack].children)].tail = join(self._data)

C30_FlushOntoTop == [][FlushStep => WrittenOntoTop]_vars

\* the same, when the child appended last is not a comment
C30_FlushOntoTopPastElements ==
    [][(FlushStep
        /\ \A i \in 1..Len(nodes[TopOfStack].children) :
              nodes[nodes[TopOfStack].children[i]].tag # CommentTag)
       => WrittenOntoTop]_vars

(***************************************************************************)
(* C31: a comment is trimmed of whitespace; when nothing is left it is     *)
(* discarded, otherwise exactly one comment node is appended as the last   *)
(* child of the element on top of the stack; a comment never changes the   *)
(* tag stack, and in SEARCHING state it adds nothing to the tree.          *)
(***************************************************************************)
\* feed() of one token of the given kinds, with nothing left in rawdata,
\* on a parser that is not DONE
TokenStep(kinds) ==
    /\ lastCall'.op = "feed"
    /\ Len(lastCall'.data) = 1
    /\ lastCall'.data[1].kind \in kinds
    /\ self.rawdata = <<>>
    /\ ~self._finished

\* d without the whitespace at its ends, written without str.strip
Trimmed(d) ==
    CHOOSE s \in {SubSeq(d, i, j) : i \in 1..(Len(d) + 1), j \in 0..Len(d)} :
        \E i \in 1..(Len(d) + 1), j \in 0..Len(d) :
            /\ s = SubSeq(d, i, j)
            /\ \A k \in 1..(i - 1) : d[k] \in Whitespace
            /\ \A k \in (j + 1)..Len(d) : d[k] \in Whitespace
            /\ s # <<>> => (s[1] \notin Whitespace /\ s[Len(s)] \notin Whitespace)

\* one comment node with the given text is new, and it is the last child
\* of the element that was on top of the stack; nothing else changes
OneCommentAppended(text) ==
    LET n == Len(nodes) + 1
        top == self._elem[Len(self._elem)]
    IN /\ Len(nodes') = n
       /\ nodes'[n].tag = CommentTag
       /\ nodes'[n].text = text
       /\ nodes'[n].children = <<>>
       /\ nodes'[top].children = Append(nodes[top].children, n)
       /\ \A i \in 1..Len(nodes) :
             /\ i # top => nodes'[i] = nodes[i]
             /\ nodes'[i].text = nodes[i].text /\ nodes'[i].tail = nodes[i].tail

C31_CommentAppended ==
    [][(TokenStep({"comment"}) /\ self._elem # <<>>)
       => /\ self'._elem = self._elem
          /\ raised' = ""
          /\ IF Trimmed(lastCall'.data[1].data) = <<>> \/ ~self._enabled
             THEN nodes' = nodes
             ELSE OneCommentAppended(Trimmed(lastCall'.data[1].data))]_vars

\* <!-- c --> fed under an open p: the p has a comment child with text c
C31_TrimmedCommentUnderTop ==
    /\ lastCall.op = "feed"
    /\ lastCall.data = <<CommentTok(<<" ", "c", " ">>)>>
    /\ self._elem # <<>>
    /\ LET top == nodes[self._elem[Len(self._elem)]]
       IN /\ top.tag = "p"
          /\ top.children # <<>>
          /\ nodes[Last(top.children)].tag = CommentTag
          /\ nodes[Last(top.children)].text = <<"c">>

(***************************************************************************)
(* C32: a processing instruction whose target is not xml is ignored        *)
(* without an error: feed() does not raise and the tree, the tag stack,    *)
(* the doctype and xml_info are unchanged, whatever the instruction holds. *)
(* handle_pi parses every instruction as an XML element before it looks at *)
(* the target, and an instruction such as <?php echo 1; ?> is not one:     *)
(* feed() raises ParseError.  C32_OtherPIIgnored is violated.              *)
(***************************************************************************)
OtherPIStep == TokenStep({"pi"}) /\ lastCall'.data[1].tag # "xml"

PIIgnored ==
    /\ raised' = ""
    /\ nodes' = nodes
    /\ trees' = trees
    /\ self'._elem = self._elem
    /\ self'._doctype = self._doctype
    /\ self'._xmlinfo = self._xmlinfo

C32_OtherPIIgnored == [][OtherPIStep => PIIgnored]_vars

\* the same, for the instructions that read as an XML element
C32_WellFormedOtherPIIgnored ==
    [][(OtherPIStep /\ lastCall'.data[1].wf) => PIIgnored]_vars

(***************************************************************************)
(* C33: within one document the encoding is resolved at most once: when a  *)
(* feed() of bytes has resolved an encoding (from the XML declaration,     *)
(* from a meta charset, or the default), every later feed() before close() *)
(* decodes with that encoding and scans nothing, also when a later chunk   *)
(* holds a charset declaration.                                            *)
(***************************************************************************)
BytesFeedStep ==
    /\ lastCall'.op = "feed"
    /\ lastCall'.bytes
    /\ ~self._finished

\* the feed() that resolves keeps what it resolved on the instance
ResolutionKept ==
    (BytesFeedStep /\ self.encoding = "" /\ lastCall'.used # "")
    => self'.encoding = lastCall'.used

\* a feed() on an instance that has an encoding decodes with it and leaves
\* it, and the encoding of the Document, as they are
NoSecondResolution ==
    (BytesFeedStep /\ self.encoding # "")
    => /\ lastCall'.used = self.encoding
       /\ self'.encoding = self.encoding
       /\ trees'[self._roottree].encoding = trees[self._roottree].encoding

C33_ResolvedOnce == [][ResolutionKept /\ NoSecondResolution]_vars

\* a chunk with <meta charset="utf-8"> and text in UTF-8, decoded as
\* iso-8859-1: the default was resolved by an earlier feed() (fed first,
\* this chunk resolves utf-8)
C33_LaterCharsetNotScanned ==
    /\ lastCall.op = "feed" /\ lastCall.bytes
    /\ lastCall.data = <<StartTag("meta", <<<<"charset", "utf-8">>>>),
                         Data(<<"C3", "A9">>)>>
    /\ self.given_encoding = ""
    /\ lastCall.used = "iso-8859-1"
    /\ self.encoding = "iso-8859-1"

(***************************************************************************)
(* C34: close() flushes the pending text before it resolves the root:      *)
(* every piece of character data the parser received in BUILDING state     *)
(* before close() is in the tree that close() returns, as the text or the  *)
(* tail of some node.  C34_TextInReturnedTree is violated: close() never   *)
(* parses what feed() left in rawdata, so text that ends in an unfinished  *)
(* character reference is dropped, and text at the top level beside the    *)
(* html element that close() promotes stays on the synthetic container,    *)
(* which is not returned.  Text that reached handle_data is under the      *)
(* container after close() (C34_TextUnderContainer).                       *)
(***************************************************************************)
CloseStep == lastCall'.op = "close"

Letters == {"a", "b"}

\* the token at position i of seen was dispatched in BUILDING state
BuildingAt(i) ==
    self.tag = "" \/ (FirstMatch(seen) # 0 /\ i >= FirstMatch(seen))

\* how often the letter c was received as character data in BUILDING state
Received(c) ==
    Cardinality({i \in 1..Len(seen) :
                    /\ seen[i].kind = "data"
                    /\ BuildingAt(i)
                    /\ seen[i].data = <<c>>})

\* how often c occurs in q
Occurrences(q, c) == Cardinality({i \in 1..Len(q) : q[i] = c})

\* how often c occurs in the text and tail slots of the nodes of set S
\* (the text of a comment node is the comment, not character data)
RECURSIVE StoredIn(_, _, _)
StoredIn(ns, S, c) ==
    IF S = {} THEN 0
    ELSE LET n == CHOOSE m \in S : TRUE
         IN (IF ns[n].tag = CommentTag THEN 0 ELSE Occurrences(ns[n].text, c))
            + Occurrences(ns[n].tail, c)
            + StoredIn(ns, S \ {n}, c)

\* the synthetic container of the document that close() ends
ContainerNode == CHOOSE n \in 1..Len(nodes) : IsContainer(n)

\* how often c is in the text that feed() left in rawdata while BUILDING
Held(c) ==
    IF self._enabled
    THEN Cardinality({i \in 1..Len(self.rawdata) :
                         /\ self.rawdata[i].kind = "data"
                         /\ self.rawdata[i].data = <<c>>})
    ELSE 0

\* no feed() of the document raised, so rawdata holds unparsed text only
C34_TextInReturnedTree ==
    [][(CloseStep /\ raised = "" /\ raised' = "")
       => \A c \in Letters :
             Received(c) + Held(c)
                <= StoredIn(nodes', Descendants(nodes', result'), c)]_vars

\* the same, with the synthetic container counted as part of the tree
C34_HeldTextKept ==
    [][(CloseStep /\ raised = "" /\ raised' = "")
       => \A c \in Letters :
             Received(c) + Held(c)
                <= StoredIn(nodes', Descendants(nodes', ContainerNode), c)]_vars

\* every feed() of the document returned: no input was left in rawdata to
\* be parsed a second time
C34_TextUnderContainer ==
    [][(CloseStep /\ self.rawdata = <<>>)
       => \A c \in Letters :
             Received(c)
                <= StoredIn(nodes', Descendants(nodes', ContainerNode), c)]_vars

\* text was pending at close(), and it is in the tree close() returned
C34_PendingTextFlushed ==
    /\ Closed /\ raised = ""
    /\ closedSeen = <<StartTag("p", <<>>), Data(<<"a">>)>>
    /\ StoredIn(nodes, Descendants(nodes, result), "a") = 1

(***************************************************************************)
(* C35: in every reachable state of the parser the tag stack is a chain of *)
(* parents: each entry above the bottom is a child of the entry under it,  *)
(* no element is on the stack twice, and every element of the tree has     *)
(* exactly one parent, except the synthetic container, which has none.     *)
(***************************************************************************)
\* the places (parent, position) where n is a child
ParentsOf(n) ==
    {pc \in (1..Len(nodes)) \X (1..Len(nodes)) :
        /\ pc[2] <= Len(nodes[pc[1]].children)
        /\ nodes[pc[1]].children[pc[2]] = n}

StackIsParentChain ==
    /\ \A i \in 2..Len(self._elem) :
          self._elem[i] \in Range(nodes[self._elem[i - 1]].children)
    /\ \A i, j \in 1..Len(self._elem) : self._elem[i] = self._elem[j] => i = j

OneParentEach ==
    \A n \in 1..Len(nodes) :
        Cardinality(ParentsOf(n)) = (IF nodes[n].born = 0 THEN 0 ELSE 1)

C35_StackIsParentChain == StackIsParentChain /\ OneParentEach

\* three entries on the stack after an element has been closed
C35_ChainAfterPop ==
    /\ Len(self._elem) = 3
    /\ \E i \in 1..Len(seen) : seen[i].kind = "end"
    /\ Len(nodes) >= 4
    /\ StackIsParentChain

(***************************************************************************)
(* C36: no flush overwrites text: every flush of the pending-text buffer   *)
(* writes to a text or tail slot that was empty before, so that each piece *)
(* of character data received in BUILDING state is stored exactly once     *)
(* under the synthetic container: at every moment it is in the pending     *)
(* buffer or in one slot.  Violated after </html> has emptied the tag      *)
(* stack (C1): the start tag that raises IndexError has flushed to the     *)
(* tail of the container already, and the next flush writes there again.   *)
(***************************************************************************)
\* the slots of the nodes that exist change only from empty to text
NoSlotOverwritten ==
    \A n \in 1..Len(nodes) :
       /\ nodes'[n].text # nodes[n].text => nodes[n].text = None
       /\ nodes'[n].tail # nodes[n].tail => nodes[n].tail = None

\* how often c is in the pending-text buffer
Pending(c) == Occurrences(join(self._data), c)

\* every piece of text that reached the parser while BUILDING is in the
\* pending buffer or in one slot under the container
StoredOnce ==
    \A c \in Letters :
       Received(c)
          = Pending(c) + StoredIn(nodes, Descendants(nodes, ContainerNode), c)

C36_NoFlushOverwrites == [][NoSlotOverwritten /\ StoredOnce']_vars

\* the same while no feed() has raised: nothing is parsed a second time
C36_NoOverwriteWithoutError ==
    [][(raised = "" /\ raised' = "") => (NoSlotOverwritten /\ StoredOnce')]_vars

(***************************************************************************)
(* C37: while the parser searches for the target of its filter, text,      *)
(* comments, end tags and start tags the filter does not accept leave the  *)
(* tree, the tag stack and the pending-text buffer as they were; only a    *)
(* DOCTYPE or an <?xml ...?> instruction changes the Document.             *)
(***************************************************************************)
\* feed() of one token of the given kinds in SEARCHING state
SearchingStep(kinds) ==
    TokenStep(kinds) /\ self.tag # "" /\ ~self._enabled

FedToken == lastCall'.data[1]

TreeStackBufferKept ==
    nodes' = nodes /\ self'._elem = self._elem /\ self'._data = self._data

DocumentKept == trees' = trees /\ self'._roottree = self._roottree

C37_SearchingFrame ==
    [][/\ SearchingStep({"data", "comment", "end"})
            => (TreeStackBufferKept /\ DocumentKept)
       /\ (SearchingStep({"start", "startend"}) /\ ~Satisfies(FedToken))
            => (TreeStackBufferKept /\ DocumentKept)
       /\ (SearchingStep({"decl", "pi"}) /\ ~DocumentKept)
            => \/ FedToken.kind = "decl"
               \/ FedToken.kind = "pi" /\ FedToken.tag = "xml"]_vars

\* text, a comment and a rejected candidate went by, and nothing was built
C37_NothingBuiltWhileSearching ==
    /\ Fed /\ raised = ""
    /\ self.tag = "div" /\ DOMAIN self.attrs = {"id"} /\ ~self._enabled
    /\ seen = <<Data(<<"a">>), CommentTok(<<"c">>), StartTag("div", <<<<"id", "x">>>>)>>
    /\ Len(nodes) = 1 /\ self._data = <<>> /\ Len(self._elem) = 1

(***************************************************************************)
(* C38: with a filter, once a start tag has matched and the tokens after   *)
(* it are well nested and end with the end tag of the root, the parser     *)
(* reaches DONE: when that end tag is processed, not before, and with      *)
(* only the synthetic container left on the stack; for every tag the       *)
(* filter can name.  A void target (br) is never pushed on the stack, its  *)
(* end tag is ignored, and DONE is never reached (C8):                     *)
(* C38_MatchedRootReachesDone is violated.                                 *)
(***************************************************************************)
Unbalanced == <<"!">>

\* the elements left open by toks inside the open elements `open`; markup
\* after the last element has closed, or an end tag that does not name the
\* innermost open element, is not well nested
RECURSIVE OpenAfter(_, _)
OpenAfter(toks, open) ==
    IF toks = <<>> THEN open
    ELSE IF open = <<>> THEN Unbalanced
    ELSE LET t == Head(toks)
         IN IF t.kind = "start" /\ t.tag \notin _voids
            THEN OpenAfter(Tail(toks), Append(open, t.tag))
            ELSE IF t.kind = "end"
            THEN IF Last(open) = t.tag
                 THEN OpenAfter(Tail(toks), SubSeq(open, 1, Len(open) - 1))
                 ELSE Unbalanced
            ELSE OpenAfter(Tail(toks), open)

\* a start tag (not <x/>) has matched the filter
RootOpened ==
    /\ self.tag # "" /\ FirstMatch(seen) # 0
    /\ seen[FirstMatch(seen)].kind = "start"

\* the elements open after the tokens the parser has processed since the match
OpenSinceMatch ==
    OpenAfter(SubSeq(seen, FirstMatch(seen) + 1, Len(seen)), <<self.tag>>)

\* the tokens since the match are well nested and the last is the root's end tag
RootClosed == RootOpened /\ OpenSinceMatch = <<>>

\* the tokens since the match are well nested and the root is open
RootStillOpen == RootOpened /\ OpenSinceMatch \notin {<<>>, Unbalanced}

Done == self._finished

OnlyContainerOnStack == Len(self._elem) = 1 /\ IsContainer(self._elem[1])

C38_MatchedRootReachesDone ==
    /\ RootClosed ~> Done
    /\ [](RootClosed => (Done /\ OnlyContainerOnStack))
    /\ [](RootStillOpen => ~Done)

\* the same for targets that are not void elements
C38_PushedRootReachesDone ==
    /\ (RootClosed /\ self.tag \notin _voids) ~> Done
    /\ []((RootClosed /\ self.tag \notin _voids) => (Done /\ OnlyContainerOnStack))
    /\ []((RootStillOpen /\ self.tag \notin _voids) => ~Done)

\* a nested element closed, then the root: DONE
C38_DoneAtRootEndTag ==
    /\ Fed /\ Done /\ OnlyContainerOnStack
    /\ seen = <<StartTag("div", <<>>), StartTag("p", <<>>), EndTag("p"), EndTag("div")>>

(***************************************************************************)
(* C39: whenever tostring writes an XML declaration in front of bytes, the *)
(* encoding the declaration names is the encoding the tree is written in,  *)
(* whatever the encoding argument, the encoding of the Document and the    *)
(* captured declaration are.  tostring keeps a captured encoding attribute *)
(* and encodes with the argument, the Document's encoding or UTF-8:        *)
(* C39_DeclaredEncodingIsUsed is violated.                                 *)
(***************************************************************************)
DeclarationInBytes ==
    FullSerialized /\ lastCall.out.bytes /\ XmlDeclsOf(lastCall.out.toks) # <<>>

WrittenAttrib == XmlDeclsOf(lastCall.out.toks)[1].attrs

\* the tree is written in the declared encoding
TreeInDeclaredEncoding ==
    \E i \in 1..Len(WrittenAttrib) :
       /\ WrittenAttrib[i][1] = "encoding"
       /\ WrittenAttrib[i][2] = ChosenEncoding
       /\ EndsWith(lastCall.out.toks,
                   TreeTokens(result,
                              IF lastCall.method = "html" THEN "html" ELSE "xml",
                              IF WrittenAttrib[i][2] = "UTF-8" THEN "utf-8"
                              ELSE WrittenAttrib[i][2]))

C39_DeclaredIsUsedUnlessCaptured ==
    (DeclarationInBytes /\ ~Names(CapturedAttrib, "encoding"))
    => TreeInDeclaredEncoding

(***************************************************************************)
(* C40: without a filter nothing built during the parse is lost at         *)
(* close(): every element, comment and text slot under the synthetic       *)
(* container can be reached from the root close() returns.  When the       *)
(* container has an html child close() returns the first one, and what the *)
(* container holds beside it (other elements, C12; comments; the text in   *)
(* front of it) is not in the returned tree: C40_NothingLostAtClose is     *)
(* violated.                                                               *)
(***************************************************************************)
\* the nodes attached under the container of the parse that close() ended
UnderClosedContainer ==
    Descendants(nodes, ClosedContainer) \ {ClosedContainer}

NothingLost ==
    /\ UnderClosedContainer \subseteq Descendants(nodes, result)
    /\ result # ClosedContainer => nodes[ClosedContainer].text = None

C40_NothingLostWithoutHtmlChild ==
    (Closed /\ self.tag = "" /\ raised = ""
        /\ HtmlChildren(ClosedContainer) = {})
    => NothingLost

====
